---- MODULE Spec2Model ----
(***************************************************************************)
(* Shared-dictionary lifecycle of voxtype: request moderation, the global  *)
(* dictionary, backup creation / retention / restore and the backup lock.  *)
(*                                                                         *)
(* Texts are sequences of characters.  The characters are named by short   *)
(* strings: "a", "A", "b", "x", "X", "SP" (a space) and "FW_A" (the        *)
(* full-width letter U+FF21, which NFKC folds to "A").                     *)
(***************************************************************************)
EXTENDS Integers, Sequences, FiniteSets, TLC

\* ------------------------------------------------------------------ bounds
MaxId == 2
MaxRequests == 1
\* the clock: instants are ticks 0..MaxInstant
MaxInstant == 7
TicksPerSecond == 2
SecondsPerDay == 2
MaxSecondInFlight == 1
\* restores stop once the primary key of global_dictionary has reached this value
MaxRestoreId == 7
MaxWaits == 2

\* ------------------------------------------------------- program constants
REQUEST_LIMIT == 200
USER_DICTIONARY_LIMIT == 100
USER_DICTIONARY_REJECTED_LIMIT == 200

RETENTION == 3

REQUEST_STATUS_PENDING == "pending"
REQUEST_STATUS_APPROVED == "approved"
REQUEST_STATUS_REJECTED == "rejected"

\* Python's None for integer-valued columns (ids and instants start at 1).
None == 0

\* ------------------------------------------------------------ input pools
Handlers == {"h1", "h2"}
Users == {1}
Admins == {9}
Instants == {1}
PatternPool == {<<"a">>, <<"FW_A", "SP">>, <<"b">>}
ReplacementPool == {<<"x">>, <<"X">>}
\* what users type into their own dictionary
UserPatternPool == {<<"a">>}
UserReplacementPool == {<<"x">>}

VARIABLES
  shared,      \* rows of table global_dictionary
  nextId,      \* next primary key of global_dictionary
  requests,    \* rows of table global_dictionary_requests
  nextReqId,   \* next primary key of global_dictionary_requests
  personal,    \* rows of table user_dictionary
  resp,        \* the response of the last handler that returned
  hstate,      \* moderation handlers in flight: where each one is suspended
  files,       \* the files of ./data/backups
  settings,    \* the row of table backup_settings
  bres,        \* the result of the last backup operation that returned
  createdAt,   \* history: the instants at which backups were created
  clock,       \* the latest reading of the wall clock
  lock,        \* _backup_lock: its holder and the tasks waiting for it
  bproc,       \* backup and restore tasks in flight: where each one is suspended
  sch          \* the backup scheduler task and the application's lifespan

modVars == <<shared, nextId, requests, nextReqId, personal>>
backupVars == <<files, settings, bres, createdAt, clock, lock, bproc, sch>>
vars == <<shared, nextId, requests, nextReqId, personal, resp, hstate,
          files, settings, bres, createdAt, clock, lock, bproc, sch>>

\* ------------------------------------------------------------ normalizer
IsSpace(c) == c = "SP"

CompatFold(c) == IF c = "FW_A" THEN "A" ELSE c

CaseFoldChar(c) ==
  CASE c = "A" -> "a"
    [] c = "X" -> "x"
    [] OTHER -> c

\* unicodedata.normalize("NFKC", text)
NFKC(t) == [i \in 1..Len(t) |-> CompatFold(t[i])]

\* str.casefold()
CaseFold(t) == [i \in 1..Len(t) |-> CaseFoldChar(t[i])]

RECURSIVE LStrip(_)
LStrip(t) == IF t # <<>> /\ IsSpace(Head(t)) THEN LStrip(Tail(t)) ELSE t

RECURSIVE RStrip(_)
RStrip(t) ==
  IF t # <<>> /\ IsSpace(t[Len(t)]) THEN RStrip(SubSeq(t, 1, Len(t) - 1)) ELSE t

Strip(t) == RStrip(LStrip(t))

normalize_dictionary_text(text, casefold) ==
  LET normalized == Strip(NFKC(text))
  IN  IF casefold THEN CaseFold(normalized) ELSE normalized

normalize_dictionary_text_case_sensitive(text) ==
  normalize_dictionary_text(text, FALSE)

\* a comparison that keeps the case
NormKeepCase(text) == normalize_dictionary_text(text, FALSE)

Norm(text) == normalize_dictionary_text(text, TRUE)

\* ------------------------------------------------------------- responses
Response(op, id, code, detail) ==
  [op |-> op, id |-> id, code |-> code, detail |-> detail]

\* -------------------------------------------------------------- requests
\* a status check that only looks for "approved"
NotPendingOnlyApproved(request) == request.status = REQUEST_STATUS_APPROVED

\* "if request.status != REQUEST_STATUS_PENDING" of approve, reject and delete
NotPending(request) == request.status # REQUEST_STATUS_PENDING

HasRequest(rid) == \E q \in requests : q.id = rid

ReqById(rid) == CHOOSE q \in requests : q.id = rid

get_pending_request_count_for_user(u) ==
  Cardinality({q \in requests : q.user_id = u /\ q.status = REQUEST_STATUS_PENDING})

get_request_count_for_user(u, st) ==
  Cardinality({q \in requests : q.user_id = u /\ q.status = st})

GlobalDictionary(id, pattern, replacement, created_by) ==
  [id |-> id, pattern |-> pattern, replacement |-> replacement,
   created_by |-> created_by]

UserDictionary(user_id, pattern, replacement, is_rejected) ==
  [user_id |-> user_id, pattern |-> pattern, replacement |-> replacement,
   is_rejected |-> is_rejected]

add_request(u, p, r) ==
  /\ requests' = requests \cup
       {[id |-> nextReqId, user_id |-> u, pattern |-> p, replacement |-> r,
         status |-> REQUEST_STATUS_PENDING, reviewed_by |-> None,
         reviewed_at |-> None]}
  /\ nextReqId' = nextReqId + 1

\* a quota that Rejected requests do not use up
RemainingPendingOnly(pending_count, rejected_count) == REQUEST_LIMIT - pending_count

\* remaining = 200 - pending_count - rejected_count
Remaining(pending_count, rejected_count) ==
  REQUEST_LIMIT - pending_count - rejected_count

\* POST /api/dictionary-requests
create_dictionary_request(u, p, r) ==
  LET pending_count == get_pending_request_count_for_user(u)
      rejected_count == get_request_count_for_user(u, REQUEST_STATUS_REJECTED)
      remaining == Remaining(pending_count, rejected_count)
      normalized_pattern == Norm(p)
      normalized_replacement == Norm(r)
  IN
  /\ nextReqId <= MaxRequests
  /\ IF remaining <= 0
     THEN /\ resp' = Response("submit", None, 400, "limit")
          /\ UNCHANGED modVars
     ELSE IF \E e \in shared : /\ Norm(e.pattern) = normalized_pattern
                               /\ Norm(e.replacement) = normalized_replacement
     THEN /\ resp' = Response("submit", None, 400, "exists_global")
          /\ UNCHANGED modVars
     ELSE IF \E q \in requests : /\ q.status = REQUEST_STATUS_PENDING
                                 /\ Norm(q.pattern) = normalized_pattern
                                 /\ Norm(q.replacement) = normalized_replacement
     THEN /\ resp' = Response("submit", None, 400, "exists_request")
          /\ UNCHANGED modVars
     ELSE /\ add_request(u, p, r)
          /\ resp' = Response("submit", None, 201, "ok")
          /\ UNCHANGED <<shared, nextId, personal>>

\* The row the scan "for entry in global_entries: if ...: break" stops at.
\* select(GlobalDictionary) has no ORDER BY, so any matching row may be first.
ConflictCandidates(rows, normalized_pattern) ==
  LET matching == {e \in rows : Norm(e.pattern) = normalized_pattern}
  IN  IF matching = {} THEN {None} ELSE {e.id : e \in matching}

EntryById(rows, id) == CHOOSE e \in rows : e.id = id

\* Lines 115-133 of approve_dictionary_request: the rows of global_dictionary
\* after the handler's delete / add, when the scan stopped at row `first`.
ApproveShared(rows, request, first, admin, newId) ==
  LET normalized_replacement ==
        normalize_dictionary_text_case_sensitive(request.replacement)
      differs == first # None /\
        normalize_dictionary_text_case_sensitive(EntryById(rows, first).replacement)
          # normalized_replacement
      \* "else: conflict_entry = None" runs when the replacements are equal
      conflict_entry == IF first # None /\ differs THEN first ELSE None
      afterDelete == IF differs THEN rows \ {EntryById(rows, first)} ELSE rows
  IN  IF conflict_entry = None
      THEN afterDelete \cup
             {GlobalDictionary(newId, request.pattern, request.replacement, admin)}
      ELSE afterDelete

\* POST /admin/api/dictionary-requests/{request_id}/approve
approve_dictionary_request(rid, admin) ==
  IF ~HasRequest(rid)
  THEN /\ resp' = Response("approve", rid, 404, "not_found")
       /\ UNCHANGED modVars
  ELSE LET request == ReqById(rid) IN
    IF NotPending(request)
    THEN /\ resp' = Response("approve", rid, 400, "not_pending")
         /\ UNCHANGED modVars
    ELSE \E first \in ConflictCandidates(shared, Norm(request.pattern)),
            now \in Instants :
         LET rows == ApproveShared(shared, request, first, admin, nextId) IN
         /\ \/ nextId <= MaxId
            \/ \A e \in rows : e.id # nextId
         /\ shared' = rows
         /\ nextId' = IF \E e \in rows : e.id = nextId THEN nextId + 1 ELSE nextId
         /\ requests' = (requests \ {request}) \cup
              {[request EXCEPT !.status = REQUEST_STATUS_APPROVED,
                               !.reviewed_by = admin,
                               !.reviewed_at = now]}
         /\ resp' = Response("approve", rid, 200, "ok")
         /\ UNCHANGED <<nextReqId, personal>>

\* get_user_entry_by_pattern(session, user_id, pattern): the user's entry with
\* exactly this pattern, if any.
get_user_entry_by_pattern(u, p) ==
  {e \in personal : e.user_id = u /\ e.pattern = p}

get_user_entry_count(u) == Cardinality({e \in personal : e.user_id = u})

get_user_rejected_entry_count(u) ==
  Cardinality({e \in personal : e.user_id = u /\ e.is_rejected})

\* a limit that rejection markers never reach
LimitExceededManualOnly(u, is_rejected) ==
  IF is_rejected THEN FALSE
  ELSE get_user_entry_count(u) >= USER_DICTIONARY_LIMIT

\* add_user_entry raises DictionaryLimitExceeded
LimitExceeded(u, is_rejected) ==
  IF is_rejected
  THEN get_user_rejected_entry_count(u) >= USER_DICTIONARY_REJECTED_LIMIT
  ELSE get_user_entry_count(u) >= USER_DICTIONARY_LIMIT

\* a reject that never looks for the requester's own entry
reject_always_marks(rid, admin) ==
  IF ~HasRequest(rid)
  THEN /\ resp' = Response("reject", rid, 404, "not_found")
       /\ UNCHANGED modVars
  ELSE LET request == ReqById(rid) IN
    IF NotPending(request)
    THEN /\ resp' = Response("reject", rid, 400, "not_pending")
         /\ UNCHANGED modVars
    ELSE IF LimitExceeded(request.user_id, TRUE)
    THEN /\ resp' = Response("reject", rid, 400, "limit")
         /\ UNCHANGED modVars
    ELSE \E now \in Instants :
         /\ personal' = personal \cup
                          {UserDictionary(request.user_id, request.pattern,
                                          request.replacement, TRUE)}
         /\ requests' = (requests \ {request}) \cup
              {[request EXCEPT !.status = REQUEST_STATUS_REJECTED,
                               !.reviewed_by = admin,
                               !.reviewed_at = now]}
         /\ resp' = Response("reject", rid, 200, "ok")
         /\ UNCHANGED <<shared, nextId, nextReqId>>

\* POST /admin/api/dictionary-requests/{request_id}/reject
reject_dictionary_request(rid, admin) ==
  IF ~HasRequest(rid)
  THEN /\ resp' = Response("reject", rid, 404, "not_found")
       /\ UNCHANGED modVars
  ELSE LET request == ReqById(rid)
           existing_entry == get_user_entry_by_pattern(request.user_id, request.pattern)
       IN
    IF NotPending(request)
    THEN /\ resp' = Response("reject", rid, 400, "not_pending")
         /\ UNCHANGED modVars
    ELSE IF existing_entry = {} /\ LimitExceeded(request.user_id, TRUE)
    THEN /\ resp' = Response("reject", rid, 400, "limit")
         /\ UNCHANGED modVars
    ELSE \E now \in Instants :
         /\ personal' = IF existing_entry = {}
                        THEN personal \cup
                               {UserDictionary(request.user_id, request.pattern,
                                               request.replacement, TRUE)}
                        ELSE personal
         /\ requests' = (requests \ {request}) \cup
              {[request EXCEPT !.status = REQUEST_STATUS_REJECTED,
                               !.reviewed_by = admin,
                               !.reviewed_at = now]}
         /\ resp' = Response("reject", rid, 200, "ok")
         /\ UNCHANGED <<shared, nextId, nextReqId>>

\* DELETE /admin/api/dictionary-requests/{request_id}
delete_dictionary_request(rid) ==
  IF ~HasRequest(rid)
  THEN /\ resp' = Response("delete_request", rid, 404, "not_found")
       /\ UNCHANGED modVars
  ELSE IF NotPending(ReqById(rid))
  THEN /\ resp' = Response("delete_request", rid, 400, "not_pending")
       /\ UNCHANGED modVars
  ELSE /\ requests' = requests \ {ReqById(rid)}
       /\ resp' = Response("delete_request", rid, 204, "ok")
       /\ UNCHANGED <<shared, nextId, nextReqId, personal>>

\* POST /api/dictionary (the user's own dictionary)
add_dictionary_entry(u, p, r) ==
  IF LimitExceeded(u, FALSE)
  THEN /\ resp' = Response("user_add", None, 400, "limit")
       /\ UNCHANGED modVars
  ELSE IF get_user_entry_by_pattern(u, p) # {}
  THEN \* uq_user_dictionary_user_id_pattern rejects the INSERT
       /\ resp' = Response("user_add", None, 400, "duplicate")
       /\ UNCHANGED modVars
  ELSE /\ personal' = personal \cup {UserDictionary(u, p, r, FALSE)}
       /\ resp' = Response("user_add", None, 201, "ok")
       /\ UNCHANGED <<shared, nextId, requests, nextReqId>>

\* POST /admin/api/dictionary
add_global_dictionary_entry(p, r, admin) ==
  LET existing == {e \in shared : e.pattern = p} IN
  /\ nextId <= MaxId
  /\ IF Cardinality(existing) > 1
     THEN \* scalar_one_or_none raises MultipleResultsFound
          /\ resp' = Response("admin_add", None, 500, "multiple_results")
          /\ UNCHANGED modVars
     ELSE IF existing # {}
     THEN /\ resp' = Response("admin_add", None, 400, "exists")
          /\ UNCHANGED modVars
     ELSE /\ shared' = shared \cup {GlobalDictionary(nextId, p, r, admin)}
          /\ nextId' = nextId + 1
          /\ resp' = Response("admin_add", None, 201, "ok")
          /\ UNCHANGED <<requests, nextReqId, personal>>

\* DELETE /admin/api/dictionary/{entry_id}
delete_global_dictionary_entry(id) ==
  IF ~\E e \in shared : e.id = id
  THEN /\ resp' = Response("admin_delete", id, 404, "not_found")
       /\ UNCHANGED modVars
  ELSE /\ shared' = {e \in shared : e.id # id}
       /\ resp' = Response("admin_delete", id, 204, "ok")
       /\ UNCHANGED <<nextId, requests, nextReqId, personal>>

\* ---- backup clock, file names and results
NoInstant == 0 - 1

Nows == 0..MaxInstant
DayOf(t) == t \div (TicksPerSecond * SecondsPerDay)
SecondOfDay(t) == (t \div TicksPerSecond) % SecondsPerDay
Days == {DayOf(t) : t \in Nows}

\* The scaled day has SecondsPerDay hours of one second each.
TicksPerDay == TicksPerSecond * SecondsPerDay
Hours == 0..(SecondsPerDay - 1)

\* current.replace(hour=run_at_hour, minute=0, second=0, microsecond=0)
TargetOfDay(current, run_at_hour) ==
  (DayOf(current) * SecondsPerDay + run_at_hour) * TicksPerSecond

\* a target that is never moved to the next day
get_next_run_at_today(current, run_at_hour) == TargetOfDay(current, run_at_hour)

\* a comparison that sends the boundary to the next day
get_next_run_at_strict(current, run_at_hour) ==
  LET target == TargetOfDay(current, run_at_hour)
  IN  IF current >= target THEN target + TicksPerDay ELSE target

get_next_run_at(current, run_at_hour) ==
  LET target == TargetOfDay(current, run_at_hour)
  IN  IF current > target THEN target + TicksPerDay ELSE target

\* File names: "global_dictionary_<date>_<HH-MM-SS>.xlsx" (kind "datetime"),
\* "global_dictionary_<date>.xlsx" (kind "date") and any other name.
DateTimeName(day, sec) == [kind |-> "datetime", day |-> day, sec |-> sec]
DateName(day) == [kind |-> "date", day |-> day, sec |-> 0]
OtherName == [kind |-> "other", day |-> 0, sec |-> 0]

NoResult ==
  [op |-> "none", created_file |-> OtherName, created_at |-> NoInstant,
   kept |-> 0, deleted |-> 0]

\* ---- the backup lock and the tasks that use it
Scheduled == {"s1", "s2"}    \* calls of run_backup_if_enabled
Manual == {"m1"}             \* calls of run_backup_endpoint
Restorers == {"r1", "r2"}    \* calls of restore_backup_endpoint
Procs == Scheduled \cup Manual \cup Restorers
NoProc == "none"

FreeLock == [holder |-> NoProc, waiters |-> <<>>]
IdleProc ==
  [pc |-> "start", outcome |-> "none", filename |-> OtherName, mode |-> "none",
   entries |-> <<>>, seen |-> {}, kept |-> 0, deleted |-> 0,
   blockedBy |-> NoProc]

\* The scheduler task as start_backup_scheduler creates it: at the head of
\* its loop, stop_event not set, nothing read yet, the application up.
\* (stopped_in is history: where the task was when stop_event was set.)
NoScheduler ==
  [pc |-> "loop", stop |-> FALSE, now |-> NoInstant, next_run |-> NoInstant,
   run_at_hour |-> 0, waits |-> 0, ran |-> 0, life |-> "up",
   stopped_in |-> "none"]

Idle == [pc |-> "idle", op |-> "none", rid |-> None, admin |-> None, code |-> 0]

Init ==
  /\ shared = {}
  /\ nextId = 1
  /\ requests = {}
  /\ nextReqId = 1
  /\ personal = {}
  /\ resp = Response("none", None, 0, "none")
  /\ hstate = [h \in Handlers |-> Idle]
  /\ files = {}
  /\ settings = [enabled |-> FALSE, last_run_at |-> NoInstant]
  /\ bres = NoResult
  /\ createdAt = {}
  /\ clock = 0
  /\ lock = FreeLock
  /\ bproc = [p \in Procs |-> IdleProc]
  /\ sch = NoScheduler

Submit ==
  /\ \E u \in Users, p \in PatternPool, r \in ReplacementPool :
       create_dictionary_request(u, p, r)
  /\ UNCHANGED <<hstate, backupVars>>
Approve ==
  /\ \E rid \in 1..MaxRequests, a \in Admins : approve_dictionary_request(rid, a)
  /\ UNCHANGED <<hstate, backupVars>>
Reject ==
  /\ \E rid \in 1..MaxRequests, a \in Admins : reject_dictionary_request(rid, a)
  /\ UNCHANGED <<hstate, backupVars>>
DeleteRequest ==
  /\ \E rid \in 1..MaxRequests : delete_dictionary_request(rid)
  /\ UNCHANGED <<hstate, backupVars>>
UserAdd ==
  /\ \E u \in Users, p \in UserPatternPool, r \in UserReplacementPool :
       add_dictionary_entry(u, p, r)
  /\ UNCHANGED <<hstate, backupVars>>
AdminAdd ==
  /\ \E p \in PatternPool, r \in ReplacementPool, a \in Admins :
       add_global_dictionary_entry(p, r, a)
  /\ UNCHANGED <<hstate, backupVars>>
AdminDelete ==
  /\ \E id \in 1..MaxId : delete_global_dictionary_entry(id)
  /\ UNCHANGED <<hstate, backupVars>>

\* Handlers called one after the other, each running to its response.
Next ==
  \/ Submit
  \/ Approve
  \/ Reject
  \/ DeleteRequest
  \/ UserAdd
  \/ AdminAdd
  \/ AdminDelete

Spec == Init /\ [][Next]_vars

\* ------------------------------------------------- the list of pending requests
\* The dict normalized_globals that list_dictionary_requests builds: a later
\* row of select(GlobalDictionary) replaces an earlier one with the same
\* normalized pattern, and the select has no ORDER BY, so any matching row
\* may be the one that stays.
NormalizedGlobals(rows) ==
  LET keys == {Norm(e.pattern) : e \in rows}
  IN  {g \in [keys -> {e.id : e \in rows}] :
         \A k \in keys : g[k] \in ConflictCandidates(rows, k)}

\* _build_conflict_info(request, normalized_globals): conflict_entry_id
_build_conflict_info(request, rows, normalized_globals) ==
  LET normalized_pattern == Norm(request.pattern)
  IN  IF normalized_pattern \notin DOMAIN normalized_globals THEN None
      ELSE LET entry == EntryById(rows, normalized_globals[normalized_pattern])
           IN  IF normalize_dictionary_text_case_sensitive(entry.replacement)
                    = normalize_dictionary_text_case_sensitive(request.replacement)
               THEN None
               ELSE entry.id

\* get_pending_requests(session)
get_pending_requests == {q \in requests : q.status = REQUEST_STATUS_PENDING}

\* GET /admin/api/dictionary-requests: the conflict_entry_id of every entry of
\* the response, by request id
list_dictionary_requests ==
  /\ \E normalized_globals \in NormalizedGlobals(shared) :
       resp' = [op |-> "list", id |-> None, code |-> 200, detail |-> "ok",
                count |-> Cardinality(get_pending_requests),
                conflict_entry_id |->
                  [rid \in {q.id : q \in get_pending_requests} |->
                     _build_conflict_info(ReqById(rid), shared, normalized_globals)]]
  /\ UNCHANGED modVars

ListRequests ==
  /\ list_dictionary_requests
  /\ UNCHANGED <<hstate, backupVars>>

NextListing ==
  \/ Next
  \/ ListRequests

SpecListing == Init /\ [][NextListing]_vars

\* ------------------------------------------- moderation handlers interleaved
\* Each handler is a coroutine with its own session; it is suspended at every
\* awaited database round trip.  A step below runs from one suspension to the
\* next; rows are read and written in the committed tables (READ COMMITTED).
Finish(h, code) == [hstate EXCEPT ![h].pc = "done", ![h].code = code]

\* approve: "select request", the two status checks
approve_load(h, rid, admin) ==
  /\ hstate[h].pc = "idle"
  /\ hstate' =
       IF ~HasRequest(rid)
       THEN [hstate EXCEPT ![h] = [pc |-> "done", op |-> "approve", rid |-> rid,
                                   admin |-> admin, code |-> 404]]
       ELSE IF NotPending(ReqById(rid))
       THEN [hstate EXCEPT ![h] = [pc |-> "done", op |-> "approve", rid |-> rid,
                                   admin |-> admin, code |-> 400]]
       ELSE [hstate EXCEPT ![h] = [pc |-> "loaded", op |-> "approve", rid |-> rid,
                                   admin |-> admin, code |-> 0]]
  /\ UNCHANGED <<modVars, resp, backupVars>>

\* approve: "select global_dictionary", the conflict scan, delete / add, the
\* UPDATE of the request row by primary key, commit
approve_commit(h) ==
  /\ hstate[h].pc = "loaded"
  /\ hstate[h].op = "approve"
  /\ LET request == ReqById(hstate[h].rid) IN
     \E first \in ConflictCandidates(shared, Norm(request.pattern)),
        now \in Instants :
       LET rows == ApproveShared(shared, request, first, hstate[h].admin, nextId) IN
       /\ shared' = rows
       /\ nextId' = IF \E e \in rows : e.id = nextId THEN nextId + 1 ELSE nextId
       /\ requests' = (requests \ {request}) \cup
            {[request EXCEPT !.status = REQUEST_STATUS_APPROVED,
                             !.reviewed_by = hstate[h].admin,
                             !.reviewed_at = now]}
  /\ hstate' = Finish(h, 200)
  /\ UNCHANGED <<nextReqId, personal, resp, backupVars>>

\* reject: "select request", the two status checks
reject_load(h, rid, admin) ==
  /\ hstate[h].pc = "idle"
  /\ hstate' =
       IF ~HasRequest(rid)
       THEN [hstate EXCEPT ![h] = [pc |-> "done", op |-> "reject", rid |-> rid,
                                   admin |-> admin, code |-> 404]]
       ELSE IF NotPending(ReqById(rid))
       THEN [hstate EXCEPT ![h] = [pc |-> "done", op |-> "reject", rid |-> rid,
                                   admin |-> admin, code |-> 400]]
       ELSE [hstate EXCEPT ![h] = [pc |-> "loaded", op |-> "reject", rid |-> rid,
                                   admin |-> admin, code |-> 0]]
  /\ UNCHANGED <<modVars, resp, backupVars>>

\* reject: get_user_entry_by_pattern and add_user_entry, which commits the marker
reject_marker(h) ==
  /\ hstate[h].pc = "loaded"
  /\ hstate[h].op = "reject"
  /\ LET request == ReqById(hstate[h].rid)
         existing_entry == get_user_entry_by_pattern(request.user_id, request.pattern)
     IN IF existing_entry = {} /\ LimitExceeded(request.user_id, TRUE)
        THEN /\ hstate' = Finish(h, 400)
             /\ UNCHANGED personal
        ELSE /\ hstate' = [hstate EXCEPT ![h].pc = "marked"]
             /\ personal' = IF existing_entry = {}
                            THEN personal \cup
                                   {UserDictionary(request.user_id, request.pattern,
                                                   request.replacement, TRUE)}
                            ELSE personal
  /\ UNCHANGED <<shared, nextId, requests, nextReqId, resp, backupVars>>

\* reject: the UPDATE of the request row by primary key, commit
reject_commit(h) ==
  /\ hstate[h].pc = "marked"
  /\ LET request == ReqById(hstate[h].rid) IN
     \E now \in Instants :
       requests' = (requests \ {request}) \cup
            {[request EXCEPT !.status = REQUEST_STATUS_REJECTED,
                             !.reviewed_by = hstate[h].admin,
                             !.reviewed_at = now]}
  /\ hstate' = Finish(h, 200)
  /\ UNCHANGED <<shared, nextId, nextReqId, personal, resp, backupVars>>

\* One Pending request, submitted before the Shared dictionary was edited.
InitConc ==
  /\ \E p \in PatternPool, r \in ReplacementPool :
       requests = {[id |-> 1, user_id |-> 1, pattern |-> p, replacement |-> r,
                    status |-> REQUEST_STATUS_PENDING, reviewed_by |-> None,
                    reviewed_at |-> None]}
  /\ nextReqId = 2
  /\ \/ shared = {} /\ nextId = 1
     \/ \E p \in PatternPool, r \in ReplacementPool, a \in Admins :
          shared = {GlobalDictionary(1, p, r, a)} /\ nextId = 2
  /\ personal = {}
  /\ resp = Response("none", None, 0, "none")
  /\ hstate = [h \in Handlers |-> Idle]
  /\ files = {}
  /\ settings = [enabled |-> FALSE, last_run_at |-> NoInstant]
  /\ bres = NoResult
  /\ createdAt = {}
  /\ clock = 0
  /\ lock = FreeLock
  /\ bproc = [p \in Procs |-> IdleProc]
  /\ sch = NoScheduler

ApproveLoad == \E h \in Handlers, rid \in 1..MaxRequests, a \in Admins :
  approve_load(h, rid, a)
ApproveCommit == \E h \in Handlers : approve_commit(h)
RejectLoad == \E h \in Handlers, rid \in 1..MaxRequests, a \in Admins :
  reject_load(h, rid, a)
RejectMarker == \E h \in Handlers : reject_marker(h)
RejectCommit == \E h \in Handlers : reject_commit(h)

NextConc ==
  \/ ApproveLoad
  \/ ApproveCommit
  \/ RejectLoad
  \/ RejectMarker
  \/ RejectCommit

SpecConc == InitConc /\ [][NextConc]_vars

\* ------------------------------------------------------- moderation quotas
\* A user close to the quotas: the rows below were written by earlier submit
\* and reject calls.  Their primary keys lie below the keys 1, 2, ... of the
\* rows the model adds; keys are only ever compared for equality.
FillerText(i) == <<"f", ToString(i)>>

FillerRequest(i, st) ==
  [id |-> 0 - i, user_id |-> 1, pattern |-> FillerText(i), replacement |-> <<"x">>,
   status |-> st,
   reviewed_by |-> IF st = REQUEST_STATUS_PENDING THEN None ELSE 9,
   reviewed_at |-> IF st = REQUEST_STATUS_PENDING THEN None ELSE 1]

\* np Pending, then nr Rejected, then na Approved requests
FillerRequests(np, nr, na) ==
  {FillerRequest(i, REQUEST_STATUS_PENDING) : i \in 1..np}
  \cup {FillerRequest(i, REQUEST_STATUS_REJECTED) : i \in (np + 1)..(np + nr)}
  \cup {FillerRequest(i, REQUEST_STATUS_APPROVED) : i \in (np + nr + 1)..(np + nr + na)}

\* the rejection markers of the Rejected requests
FillerMarkers(np, nr) ==
  {UserDictionary(1, FillerText(i), <<"x">>, TRUE) : i \in (np + 1)..(np + nr)}

\* Pending and Rejected counts that add up to the quota or to one less
QuotaScenarios ==
  {[pending |-> np, rejected |-> REQUEST_LIMIT - d - np, approved |-> na] :
     np \in {0, 1, REQUEST_LIMIT \div 2, REQUEST_LIMIT - 1}, d \in {0, 1},
     na \in {0, 1}}

\* the requests the handlers of this section are called with
QuotaRequestIds == {0 - 1, 1}
QuotaPatternPool == {<<"a">>, <<"FW_A", "SP">>, FillerText(1)}
QuotaReplacementPool == {<<"x">>, <<"X">>, <<"b">>}

InitQuota ==
  /\ \E sc \in QuotaScenarios :
       /\ requests = FillerRequests(sc.pending, sc.rejected, sc.approved)
       /\ personal = FillerMarkers(sc.pending, sc.rejected)
  /\ nextReqId = 1
  /\ \/ shared = {} /\ nextId = 1
     \/ shared = {GlobalDictionary(1, <<"a">>, <<"x">>, 9)} /\ nextId = 2
  /\ resp = Response("none", None, 0, "none")
  /\ hstate = [h \in Handlers |-> Idle]
  /\ files = {}
  /\ settings = [enabled |-> FALSE, last_run_at |-> NoInstant]
  /\ bres = NoResult
  /\ createdAt = {}
  /\ clock = 0
  /\ lock = FreeLock
  /\ bproc = [p \in Procs |-> IdleProc]
  /\ sch = NoScheduler

QuotaSubmit ==
  /\ \E u \in Users, p \in QuotaPatternPool, r \in QuotaReplacementPool :
       create_dictionary_request(u, p, r)
  /\ UNCHANGED <<hstate, backupVars>>
QuotaApprove ==
  /\ \E rid \in QuotaRequestIds, a \in Admins : approve_dictionary_request(rid, a)
  /\ UNCHANGED <<hstate, backupVars>>
QuotaReject ==
  /\ \E rid \in QuotaRequestIds, a \in Admins : reject_dictionary_request(rid, a)
  /\ UNCHANGED <<hstate, backupVars>>
QuotaDeleteRequest ==
  /\ \E rid \in QuotaRequestIds : delete_dictionary_request(rid)
  /\ UNCHANGED <<hstate, backupVars>>

NextQuota ==
  \/ QuotaSubmit
  \/ QuotaApprove
  \/ QuotaReject
  \/ QuotaDeleteRequest

SpecQuota == InitQuota /\ [][NextQuota]_vars

\* ---- submits interleaved
\* submit: the two counts and the quota test
submit_count(h, u, p, r) ==
  /\ hstate[h].pc = "idle"
  /\ LET pending_count == get_pending_request_count_for_user(u)
         rejected_count == get_request_count_for_user(u, REQUEST_STATUS_REJECTED)
         remaining == Remaining(pending_count, rejected_count)
     IN  hstate' = [hstate EXCEPT ![h] =
                      [pc |-> IF remaining <= 0 THEN "done" ELSE "counted",
                       op |-> "submit", rid |-> None, admin |-> None,
                       code |-> IF remaining <= 0 THEN 400 ELSE 0,
                       user |-> u, pattern |-> p, replacement |-> r]]
  /\ UNCHANGED <<modVars, resp, backupVars>>

\* submit: the scans of global_dictionary and of the Pending requests, then
\* add_request, which commits
submit_commit(h) ==
  /\ hstate[h].pc = "counted"
  /\ LET normalized_pattern == Norm(hstate[h].pattern)
         normalized_replacement == Norm(hstate[h].replacement)
     IN  IF \/ \E e \in shared : /\ Norm(e.pattern) = normalized_pattern
                                 /\ Norm(e.replacement) = normalized_replacement
            \/ \E q \in requests : /\ q.status = REQUEST_STATUS_PENDING
                                   /\ Norm(q.pattern) = normalized_pattern
                                   /\ Norm(q.replacement) = normalized_replacement
         THEN /\ hstate' = Finish(h, 400)
              /\ UNCHANGED <<requests, nextReqId>>
         ELSE /\ add_request(hstate[h].user, hstate[h].pattern, hstate[h].replacement)
              /\ hstate' = Finish(h, 201)
  /\ UNCHANGED <<shared, nextId, personal, resp, backupVars>>

\* The user has 198 or 199 Rejected requests and their markers.
InitQuotaConc ==
  /\ \E nr \in {REQUEST_LIMIT - 2, REQUEST_LIMIT - 1} :
       /\ requests = FillerRequests(0, nr, 0)
       /\ personal = FillerMarkers(0, nr)
  /\ nextReqId = 1
  /\ shared = {}
  /\ nextId = 1
  /\ resp = Response("none", None, 0, "none")
  /\ hstate = [h \in Handlers |-> Idle]
  /\ files = {}
  /\ settings = [enabled |-> FALSE, last_run_at |-> NoInstant]
  /\ bres = NoResult
  /\ createdAt = {}
  /\ clock = 0
  /\ lock = FreeLock
  /\ bproc = [p \in Procs |-> IdleProc]
  /\ sch = NoScheduler

\* the requests that the handlers in flight add
RacedRequestIds == 1..Cardinality(Handlers)

SubmitCount ==
  \E h \in Handlers, u \in Users, p \in QuotaPatternPool, r \in QuotaReplacementPool :
    submit_count(h, u, p, r)
SubmitCommit == \E h \in Handlers : submit_commit(h)
RacedReject ==
  /\ \E rid \in RacedRequestIds, a \in Admins : reject_dictionary_request(rid, a)
  /\ UNCHANGED <<hstate, backupVars>>

NextQuotaConc ==
  \/ SubmitCount
  \/ SubmitCommit
  \/ RacedReject

SpecQuotaConc == InitQuotaConc /\ [][NextQuotaConc]_vars

\* ------------------------------------------------------------ backup files
\* f"global_dictionary_{export_date.isoformat()}_{now.strftime('%H-%M-%S')}.xlsx"
\* with current_date left at its default: export_date = date.today()
BackupFileName(now) == DateTimeName(DayOf(now), SecondOfDay(now))

\* the parsed datetime, in seconds; NoInstant for Python's None
_parse_backup_datetime(name) ==
  IF name.kind = "other" THEN NoInstant ELSE name.day * SecondsPerDay + name.sec

_list_backup_files(dir) == {f \in dir : _parse_backup_datetime(f.name) # NoInstant}

\* get_global_entries: the rows of global_dictionary, here in primary key order
RECURSIVE RowsOf(_)
RowsOf(rows) ==
  IF rows = {} THEN <<>>
  ELSE LET e == CHOOSE x \in rows : \A y \in rows : x.id <= y.id
       IN  <<[pattern |-> e.pattern, replacement |-> e.replacement,
              created_by |-> e.created_by]>> \o RowsOf(rows \ {e})

\* backups.sort(key=parsed datetime, reverse=True); keep = backups[:3].
\* The sort is stable over iterdir(), whose order is arbitrary, so among files
\* with equal datetimes any may come first.
KeepChoicesAll(backups) == {backups}

KeepChoices(backups) ==
  {keep \in SUBSET backups :
     /\ Cardinality(keep) = IF Cardinality(backups) < RETENTION
                            THEN Cardinality(backups) ELSE RETENTION
     /\ \A k \in keep, d \in backups \ keep :
          _parse_backup_datetime(k.name) >= _parse_backup_datetime(d.name)}

\* the header row that create_global_dictionary_backup writes and
\* _validate_header expects; a cell is a text
ExpectedHeader ==
  <<<<"pattern">>, <<"replacement">>, <<"created_at">>, <<"created_by">>>>

\* _validate_header(header_row): the cells, stripped, are the expected ones
_validate_header(header_row) ==
  [i \in 1..Len(header_row) |-> Strip(header_row[i])] = ExpectedHeader

\* rows is not empty and _validate_header(rows[0]); a sheet without rows has
\* the header <<>>
Readable(f) == f.header # <<>> /\ _validate_header(f.header)

WriteFile(dir, name, valid, rows) ==
  {f \in dir : f.name # name}
    \cup {[name |-> name, valid |-> valid, rows |-> rows,
           header |-> IF valid THEN ExpectedHeader ELSE <<>>]}

\* create_global_dictionary_backup(session), with now_provider() returning
\* `now` for the file name and `later` for last_run_at
create_global_dictionary_backup(now, later) ==
  LET filename == BackupFileName(now)
      written == WriteFile(files, filename, TRUE, RowsOf(shared))
      backups == _list_backup_files(written)
  IN
  \E keep \in KeepChoices(backups) :
    /\ files' = (written \ backups) \cup keep
    /\ settings' = [settings EXCEPT !.last_run_at = later]
    /\ bres' = [op |-> "backup", created_file |-> filename, created_at |-> later,
                kept |-> Cardinality(keep),
                deleted |-> Cardinality(backups \ keep)]
    /\ createdAt' = createdAt \cup {now}
    /\ clock' = later

\* run_backup_if_enabled(session)
run_backup_if_enabled(now, later) ==
  IF ~settings.enabled
  THEN /\ bres' = [NoResult EXCEPT !.op = "skipped"]
       /\ UNCHANGED <<files, settings, createdAt, clock>>
  ELSE create_global_dictionary_backup(now, later)

\* PATCH /admin/api/dictionary/backup
update_backup_settings_endpoint(enabled) ==
  /\ settings' = [settings EXCEPT !.enabled = enabled]
  /\ bres' = [NoResult EXCEPT !.op = "settings"]
  /\ UNCHANGED <<files, createdAt, clock>>

\* A file put into the directory from outside the service (an operator's copy,
\* an artifact of an earlier release, a test fixture).
PlaceableNames == {DateName(0), DateTimeName(1, 1), OtherName}

PutBackupFile(name) ==
  /\ files' = WriteFile(files, name, FALSE, <<>>)
  /\ bres' = [NoResult EXCEPT !.op = "put"]
  /\ UNCHANGED <<settings, createdAt, clock>>

restVars == <<shared, nextId, requests, nextReqId, personal, resp, hstate, lock, bproc, sch>>

RunBackupNow ==
  /\ \E now \in Nows, later \in Nows :
       clock <= now /\ now <= later /\ create_global_dictionary_backup(now, later)
  /\ UNCHANGED restVars
ScheduledRun ==
  /\ \E now \in Nows, later \in Nows :
       clock <= now /\ now <= later /\ run_backup_if_enabled(now, later)
  /\ UNCHANGED restVars
UpdateBackupSettings ==
  /\ \E enabled \in BOOLEAN : update_backup_settings_endpoint(enabled)
  /\ UNCHANGED restVars
PutFile ==
  /\ \E name \in PlaceableNames : PutBackupFile(name)
  /\ UNCHANGED restVars

NextBackup ==
  \/ RunBackupNow
  \/ ScheduledRun
  \/ UpdateBackupSettings
  \/ PutFile

SpecBackup == Init /\ [][NextBackup]_vars

\* ------------------------------------------------------------ backup lock
\* asyncio.Lock: acquire() returns at once when the lock is free and nobody
\* waits, otherwise the task joins the FIFO of waiters; release() passes the
\* lock to the first waiter.
run_with_backup_lock_barging(l, p) == [l EXCEPT !.holder = p]

run_with_backup_lock_failfast(l, p) ==
  IF l.holder = NoProc THEN [l EXCEPT !.holder = p] ELSE l

\* `async with _backup_lock`, up to the point where the job starts or the
\* caller is suspended
run_with_backup_lock(l, p) ==
  IF l.holder = NoProc /\ l.waiters = <<>>
  THEN [l EXCEPT !.holder = p]
  ELSE [l EXCEPT !.waiters = Append(@, p)]

\* run_with_backup_lock_or_conflict: BackupLockConflictError when the lock is
\* held, otherwise the lock is taken
run_with_backup_lock_or_conflict(l, p) ==
  IF l.holder # NoProc THEN l ELSE [l EXCEPT !.holder = p]

\* a lock that stays with the task that has left the block
release_skipped(l) == l

\* leaving `async with _backup_lock`
release(l) ==
  IF l.waiters = <<>> THEN FreeLock
  ELSE [holder |-> Head(l.waiters), waiters |-> Tail(l.waiters)]

\* ------------------------------------------------------------------ restore
\* "../secrets.txt": a directory component and no .xlsx suffix
BadName == [kind |-> "bad", day |-> 0, sec |-> 0]
\* "../global_dictionary_<date>_<HH-MM-SS>.xlsx": the name of a backup file
\* behind a directory component
OutsideName(day, sec) == [kind |-> "outside", day |-> day, sec |-> sec]
\* "..": no separator, and no suffix
ParentName == [kind |-> "parent", day |-> 0, sec |-> 0]

\* Path(filename).name: the last component of the path
PathName(name) ==
  CASE name.kind = "outside" -> DateTimeName(name.day, name.sec)
    [] name.kind = "bad" -> [kind |-> "text", day |-> 0, sec |-> 0]
    [] OTHER -> name

\* filename.lower().endswith(".xlsx")
HasXlsxSuffix(name) == name.kind \in {"datetime", "date", "other", "outside"}

\* a validation that looks at the suffix only
ValidFileNameSuffixOnly(name) == HasXlsxSuffix(name)

\* Path(filename).name == filename and filename.lower().endswith(".xlsx")
ValidFileName(name) == PathName(name) = name /\ HasXlsxSuffix(name)

FileExists(dir, name) == \E f \in dir : f.name = name
FileByName(dir, name) == CHOOSE f \in dir : f.name = name

NoCounts == [total |-> 0, added |-> <<>>, skipped |-> 0, failed |-> 0]

\* a loop that gives up at the first row it cannot use
RECURSIVE RestoreLoopAbort(_, _, _)
RestoreLoopAbort(rows, existing_patterns, acc) ==
  IF rows = <<>> THEN acc
  ELSE
    LET pattern == Strip(Head(rows).pattern)
        replacement == Strip(Head(rows).replacement)
    IN  IF pattern = <<>> \/ replacement = <<>>
        THEN [acc EXCEPT !.total = @ + 1, !.failed = @ + 1]
        ELSE IF pattern \in existing_patterns
        THEN RestoreLoopAbort(Tail(rows), existing_patterns,
                              [acc EXCEPT !.total = @ + 1, !.skipped = @ + 1])
        ELSE RestoreLoopAbort(Tail(rows), existing_patterns \cup {pattern},
                              [acc EXCEPT !.total = @ + 1,
                                          !.added = Append(@, [pattern |-> pattern,
                                                               replacement |-> replacement])])

\* the loop over rows[1:] of restore_global_dictionary_from_backup
RECURSIVE RestoreLoop(_, _, _)
RestoreLoop(rows, existing_patterns, acc) ==
  IF rows = <<>> THEN acc
  ELSE
    LET pattern == Strip(Head(rows).pattern)
        replacement == Strip(Head(rows).replacement)
    IN  IF pattern = <<>> /\ replacement = <<>>
        THEN RestoreLoop(Tail(rows), existing_patterns, acc)
        ELSE IF pattern = <<>> \/ replacement = <<>>
        THEN RestoreLoop(Tail(rows), existing_patterns,
                         [acc EXCEPT !.total = @ + 1, !.failed = @ + 1])
        ELSE IF pattern \in existing_patterns
        THEN RestoreLoop(Tail(rows), existing_patterns,
                         [acc EXCEPT !.total = @ + 1, !.skipped = @ + 1])
        ELSE RestoreLoop(Tail(rows), existing_patterns \cup {pattern},
                         [acc EXCEPT !.total = @ + 1,
                                     !.added = Append(@, [pattern |-> pattern,
                                                          replacement |-> replacement])])

\* the rows that session.add(GlobalDictionary(..., created_by=None)) inserts
AddedEntries(added, base) ==
  {GlobalDictionary(base + i - 1, added[i].pattern, added[i].replacement, None) :
     i \in 1..Len(added)}

\* ------------------------------------------------------- restore, sequential
\* a result whose total leaves out the rows that failed
RestoreResultUsableTotal(outcome, filename, mode, counts) ==
  [op |-> "restore", outcome |-> outcome, restored_file |-> filename,
   mode |-> mode, total |-> Len(counts.added) + counts.skipped,
   added |-> Len(counts.added), skipped |-> counts.skipped,
   failed |-> counts.failed]

\* BackupRestoreResult, or the exception that ended the restore
RestoreResult(outcome, filename, mode, counts) ==
  [op |-> "restore", outcome |-> outcome, restored_file |-> filename,
   mode |-> mode, total |-> counts.total, added |-> Len(counts.added),
   skipped |-> counts.skipped, failed |-> counts.failed]

ExistingPatternsNone(entries, mode) == {}

\* existing_patterns before the loop: empty after delete(GlobalDictionary),
\* otherwise the result of select(GlobalDictionary.pattern)
ExistingPatterns(entries, mode) ==
  IF mode = "replace" THEN {} ELSE {e.pattern : e \in entries}

KeptOnRestoreAll(entries, mode) == entries

\* the rows of global_dictionary that the restore leaves in place
KeptOnRestore(entries, mode) == IF mode = "replace" THEN {} ELSE entries

RestoreNeverValidates(filename, mode) ==
  /\ bres' = [op |-> "restore", outcome |-> "not_found", restored_file |-> filename,
              mode |-> mode, total |-> 0, added |-> 0, skipped |-> 0, failed |-> 0]
  /\ shared' = IF mode = "replace" THEN {} ELSE shared
  /\ UNCHANGED nextId

\* restore_global_dictionary_from_backup(session, filename, mode)
restore_global_dictionary_from_backup(filename, mode) ==
  IF ~FileExists(files, filename)
  THEN \* FileNotFoundError
       /\ bres' = RestoreResult("not_found", filename, mode, NoCounts)
       /\ UNCHANGED <<shared, nextId>>
  ELSE IF ~Readable(FileByName(files, filename))
  THEN \* ValueError: no rows, or _validate_header fails
       /\ bres' = RestoreResult("invalid_format", filename, mode, NoCounts)
       /\ UNCHANGED <<shared, nextId>>
  ELSE
    LET rows == FileByName(files, filename).rows
        existing_patterns == ExistingPatterns(shared, mode)
        counts == RestoreLoop(rows, existing_patterns, NoCounts)
        kept == KeptOnRestore(shared, mode)
    IN  /\ nextId + Len(counts.added) - 1 <= MaxRestoreId
        /\ shared' = kept \cup AddedEntries(counts.added, nextId)
        /\ nextId' = nextId + Len(counts.added)
        /\ bres' = RestoreResult("ok", filename, mode, counts)

\* POST /admin/api/dictionary/backup/restore, with nobody else using the lock
restore_backup_endpoint(request) ==
  /\ lock = FreeLock
  /\ IF ~ValidFileName(request.filename) \/ request.mode \notin {"merge", "replace"}
     THEN /\ bres' = RestoreResult("invalid", request.filename, request.mode, NoCounts)
          /\ UNCHANGED <<shared, nextId>>
     ELSE restore_global_dictionary_from_backup(request.filename, request.mode)
  /\ UNCHANGED <<files, settings, createdAt, clock, lock, bproc>>

\* the status code of the endpoint's response
RestoreStatus(outcome) ==
  CASE outcome = "ok" -> 200
    [] outcome = "invalid" -> 400
    [] outcome = "not_found" -> 404
    [] outcome = "conflict" -> 409
    [] OTHER -> 500

BackupFileRows ==
  <<[pattern |-> <<"a">>, replacement |-> <<"X">>, created_by |-> 9],
    [pattern |-> <<"b">>, replacement |-> <<"x">>, created_by |-> 9]>>

RestoreFileRows ==
  <<[pattern |-> <<"SP">>, replacement |-> <<>>, created_by |-> None],
    [pattern |-> <<"a">>, replacement |-> <<"SP">>, created_by |-> None],
    [pattern |-> <<"b", "SP">>, replacement |-> <<"x">>, created_by |-> 9],
    [pattern |-> <<"a">>, replacement |-> <<"X">>, created_by |-> 9]>>

RepeatedFileRows ==
  <<[pattern |-> <<"a">>, replacement |-> <<"x">>, created_by |-> 9],
    [pattern |-> <<"a">>, replacement |-> <<"X">>, created_by |-> 9]>>

PaddedHeader ==
  <<<<"SP", "pattern">>, <<"replacement", "SP">>, <<"created_at">>, <<"created_by">>>>

WrongHeader == <<<<"pattern">>, <<"replacement">>, <<"created_at">>>>

\* a file as load_workbook reads it: its header row and the rows after it
BackupFile(name, header, rows) ==
  [name |-> name, valid |-> header # <<>> /\ _validate_header(header),
   rows |-> rows, header |-> header]

RestoreFiles ==
  {BackupFile(DateTimeName(0, 0), ExpectedHeader, BackupFileRows),
   BackupFile(DateTimeName(0, 1), ExpectedHeader, RestoreFileRows),
   BackupFile(DateTimeName(1, 0), ExpectedHeader, RepeatedFileRows),
   BackupFile(DateName(1), PaddedHeader, BackupFileRows),
   BackupFile(DateName(0), WrongHeader, BackupFileRows),
   BackupFile(OtherName, <<>>, <<>>)}

RestoreSharedPool ==
  {GlobalDictionary(1, <<"a">>, <<"x">>, 9),
   GlobalDictionary(2, <<"b">>, <<"X">>, 9),
   GlobalDictionary(3, <<"FW_A", "SP">>, <<"x">>, 9)}

RestoreRequestPool ==
  {[filename |-> f, mode |-> m] :
     f \in {DateTimeName(0, 0), DateTimeName(0, 1), DateTimeName(1, 0),
            DateName(1), DateName(0), OtherName, DateTimeName(1, 1)},
     m \in {"merge", "replace"}}
  \cup {[filename |-> BadName, mode |-> "merge"],
        [filename |-> OutsideName(0, 0), mode |-> "merge"],
        [filename |-> ParentName, mode |-> "merge"],
        [filename |-> DateTimeName(0, 0), mode |-> "bogus"]}

InitRestore ==
  /\ shared \in SUBSET RestoreSharedPool
  /\ nextId = 4
  /\ requests = {}
  /\ nextReqId = 1
  /\ personal = {}
  /\ resp = Response("none", None, 0, "none")
  /\ hstate = [h \in Handlers |-> Idle]
  /\ files = RestoreFiles
  /\ settings = [enabled |-> FALSE, last_run_at |-> NoInstant]
  /\ bres = NoResult
  /\ createdAt = {}
  /\ clock = 0
  /\ lock = FreeLock
  /\ bproc = [p \in Procs |-> IdleProc]
  /\ sch = NoScheduler

RestoreBackup ==
  /\ \E request \in RestoreRequestPool : restore_backup_endpoint(request)
  /\ UNCHANGED <<requests, nextReqId, personal, resp, hstate, sch>>

NextRestore == RestoreBackup

SpecRestore == InitRestore /\ [][NextRestore]_vars

\* ------------------------------------------- a backup, then a restore of it
\* Shared dictionaries as POST /admin/api/dictionary stores them: the pattern
\* and the replacement as sent, unchecked
RoundTripSharedPool ==
  {GlobalDictionary(1, <<"a">>, <<"x">>, 9),
   GlobalDictionary(2, <<"b">>, <<>>, 9),
   GlobalDictionary(3, <<"FW_A", "SP">>, <<"x">>, 9)}

\* the id of the first row a restore inserts
RoundTripFirstId == Cardinality(RoundTripSharedPool) + 1

InitRoundTrip ==
  /\ shared \in SUBSET RoundTripSharedPool
  /\ nextId = RoundTripFirstId
  /\ requests = {}
  /\ nextReqId = 1
  /\ personal = {}
  /\ resp = Response("none", None, 0, "none")
  /\ hstate = [h \in Handlers |-> Idle]
  /\ files = {}
  /\ settings = [enabled |-> FALSE, last_run_at |-> NoInstant]
  /\ bres = NoResult
  /\ createdAt = {}
  /\ clock = 0
  /\ lock = FreeLock
  /\ bproc = [p \in Procs |-> IdleProc]
  /\ sch = NoScheduler

\* the restores an admin can ask for from the list of backup files
RoundTripRequests ==
  {[filename |-> f.name, mode |-> m] : f \in files, m \in {"merge", "replace"}}

\* restores are followed up to the first one that inserts rows
RestoreListed ==
  /\ nextId = RoundTripFirstId
  /\ \E request \in RoundTripRequests : restore_backup_endpoint(request)
  /\ UNCHANGED <<requests, nextReqId, personal, resp, hstate, sch>>

NextRoundTrip ==
  \/ RunBackupNow
  \/ RestoreListed

SpecRoundTrip == InitRoundTrip /\ [][NextRoundTrip]_vars

\* ----------------------------------------- backup and restore tasks in flight
\* the instants at which the tasks in flight read the clock: whole seconds, up
\* to second MaxSecondInFlight
ClockReadings(c) ==
  {t \in Nows : /\ c <= t
                /\ t % TicksPerSecond = 0
                /\ t \div TicksPerSecond <= MaxSecondInFlight}

RestoreRequests ==
  {[filename |-> DateTimeName(0, 0), mode |-> "merge"],
   [filename |-> DateTimeName(0, 0), mode |-> "replace"],
   [filename |-> DateName(0), mode |-> "merge"],
   [filename |-> DateTimeName(1, 1), mode |-> "merge"],
   [filename |-> BadName, mode |-> "merge"],
   [filename |-> OutsideName(0, 0), mode |-> "replace"],
   [filename |-> ParentName, mode |-> "merge"],
   [filename |-> DateTimeName(0, 0), mode |-> "bogus"]}

\* the task has returned: its locals are gone, its result stays
Done(p, outcome) ==
  [IdleProc EXCEPT !.pc = "done", !.outcome = outcome,
                   !.blockedBy = bproc[p].blockedBy]

\* create_global_dictionary_backup up to `await get_global_entries(session)`
BeginCreate(p) ==
  \E now \in ClockReadings(clock) :
    /\ bproc' = [bproc EXCEPT ![p] = [@ EXCEPT !.pc = "entries",
                                               !.filename = BackupFileName(now)]]
    /\ clock' = now
    /\ createdAt' = createdAt \cup {now}

\* a run that does not look at BackupSettings.enabled
sched_start_unconditional(p) ==
  /\ bproc[p].pc = "start"
  /\ lock' = run_with_backup_lock(lock, p)
  /\ IF lock'.holder = p
     THEN BeginCreate(p)
     ELSE /\ bproc' = [bproc EXCEPT ![p] = [@ EXCEPT !.pc = "waiting",
                                                   !.blockedBy = lock.holder]]
          /\ UNCHANGED <<clock, createdAt>>
  /\ UNCHANGED <<files, settings, bres, modVars, resp, hstate, sch>>

\* run_backup_if_enabled up to its first suspension inside the job, or up to
\* the wait for the lock
sched_start(p) ==
  /\ bproc[p].pc = "start"
  /\ IF ~settings.enabled
     THEN /\ bproc' = [bproc EXCEPT ![p] = Done(p, "skipped")]
          /\ UNCHANGED <<lock, clock, createdAt>>
     ELSE /\ lock' = run_with_backup_lock(lock, p)
          /\ IF lock'.holder = p
             THEN BeginCreate(p)
             ELSE /\ bproc' = [bproc EXCEPT ![p] = [@ EXCEPT !.pc = "waiting",
                                                           !.blockedBy = lock.holder]]
                  /\ UNCHANGED <<clock, createdAt>>
  /\ UNCHANGED <<files, settings, bres, modVars, resp, hstate, sch>>

\* the waiter wakes up holding the lock and starts its job
sched_resume(p) ==
  /\ bproc[p].pc = "waiting"
  /\ lock.holder = p
  /\ BeginCreate(p)
  /\ UNCHANGED <<lock, files, settings, bres, modVars, resp, hstate, sch>>

\* run_backup_endpoint: create_global_dictionary_backup, called directly
manual_start(p) ==
  /\ bproc[p].pc = "start"
  /\ BeginCreate(p)
  /\ UNCHANGED <<lock, files, settings, bres, modVars, resp, hstate, sch>>

\* entries = await get_global_entries(session)
create_entries(p) ==
  /\ bproc[p].pc = "entries"
  /\ bproc' = [bproc EXCEPT ![p] = [@ EXCEPT !.pc = "write",
                                             !.entries = RowsOf(shared)]]
  /\ UNCHANGED <<lock, clock, createdAt, files, settings, bres, modVars, resp, hstate, sch>>

\* workbook.save, the retention step, up to `await get_backup_settings(session)`
create_write(p) ==
  /\ bproc[p].pc = "write"
  /\ LET written == WriteFile(files, bproc[p].filename, TRUE, bproc[p].entries)
         backups == _list_backup_files(written)
     IN  \E keep \in KeepChoices(backups) :
           /\ files' = (written \ backups) \cup keep
           /\ bproc' = [bproc EXCEPT ![p] =
                          [@ EXCEPT !.pc = "commit",
                                    !.kept = Cardinality(keep),
                                    !.deleted = Cardinality(backups \ keep)]]
  /\ UNCHANGED <<lock, clock, createdAt, settings, bres, modVars, resp, hstate, sch>>

\* settings.last_run_at = now_provider(); await session.commit(); return, which
\* for a scheduled run leaves `async with _backup_lock`
create_commit(p) ==
  /\ bproc[p].pc = "commit"
  /\ \E later \in ClockReadings(clock) :
       /\ settings' = [settings EXCEPT !.last_run_at = later]
       /\ clock' = later
       /\ bres' = [op |-> "backup", created_file |-> bproc[p].filename,
                   created_at |-> later, kept |-> bproc[p].kept,
                   deleted |-> bproc[p].deleted]
  /\ bproc' = [bproc EXCEPT ![p] = Done(p, "ok")]
  /\ lock' = IF p \in Scheduled THEN release(lock) ELSE lock
  /\ UNCHANGED <<createdAt, files, modVars, resp, hstate, sch>>

restore_enter_waiting(l, p) == run_with_backup_lock(l, p)

\* `await run_with_backup_lock_or_conflict(_run)` in restore_backup_endpoint
restore_enter(l, p) == run_with_backup_lock_or_conflict(l, p)

\* restore_backup_endpoint up to the first suspension of
\* restore_global_dictionary_from_backup, or up to its error response
restore_start(p, request) ==
  /\ bproc[p].pc = "start"
  /\ IF ~ValidFileName(request.filename) \/ request.mode \notin {"merge", "replace"}
     THEN /\ bproc' = [bproc EXCEPT ![p] = Done(p, "invalid")]
          /\ UNCHANGED lock
     ELSE LET l2 == restore_enter(lock, p) IN
          IF l2.holder # p
          THEN /\ lock' = l2
               /\ bproc' = [bproc EXCEPT ![p] =
                              IF \E i \in 1..Len(l2.waiters) : l2.waiters[i] = p
                              THEN [@ EXCEPT !.pc = "waiting", !.blockedBy = lock.holder]
                              ELSE [Done(p, "conflict") EXCEPT !.blockedBy = lock.holder]]
          ELSE IF ~FileExists(files, request.filename)
          THEN /\ bproc' = [bproc EXCEPT ![p] = Done(p, "not_found")]
               /\ lock' = release(l2)
          ELSE IF ~Readable(FileByName(files, request.filename))
          THEN /\ bproc' = [bproc EXCEPT ![p] = Done(p, "error")]
               /\ lock' = release(l2)
          ELSE /\ bproc' = [bproc EXCEPT ![p] =
                              [@ EXCEPT !.pc = "rows", !.filename = request.filename,
                                        !.mode = request.mode,
                                        !.entries = FileByName(files, request.filename).rows]]
               /\ lock' = l2
  /\ UNCHANGED <<clock, createdAt, files, settings, bres, modVars, resp, hstate, sch>>

\* delete(GlobalDictionary) or select(GlobalDictionary.pattern)
restore_rows(p) ==
  /\ bproc[p].pc = "rows"
  /\ bproc' = [bproc EXCEPT ![p] = [@ EXCEPT !.pc = "commit", !.seen = shared]]
  /\ UNCHANGED <<lock, clock, createdAt, files, settings, bres, modVars, resp, hstate, sch>>

\* the loop over the rows, await session.commit(), and the 200 response, which
\* leaves the lock
restore_commit(p) ==
  /\ bproc[p].pc = "commit"
  /\ LET existing_patterns == IF bproc[p].mode = "replace" THEN {}
                              ELSE {e.pattern : e \in bproc[p].seen}
         counts == RestoreLoop(bproc[p].entries, existing_patterns, NoCounts)
         kept == IF bproc[p].mode = "replace" THEN shared \ bproc[p].seen ELSE shared
     IN  /\ shared' = kept \cup AddedEntries(counts.added, nextId)
         /\ nextId' = nextId + Len(counts.added)
  /\ bproc' = [bproc EXCEPT ![p] = Done(p, "ok")]
  /\ lock' = release(lock)
  /\ UNCHANGED <<clock, createdAt, files, settings, bres, requests, nextReqId,
                 personal, resp, hstate, sch>>

InitBackupConc ==
  /\ shared = {GlobalDictionary(1, <<"a">>, <<"x">>, 9)}
  /\ nextId = 2
  /\ requests = {}
  /\ nextReqId = 1
  /\ personal = {}
  /\ resp = Response("none", None, 0, "none")
  /\ hstate = [h \in Handlers |-> Idle]
  /\ files = {[name |-> DateTimeName(0, 0), valid |-> TRUE, rows |-> BackupFileRows,
               header |-> ExpectedHeader],
              [name |-> DateName(0), valid |-> FALSE, rows |-> <<>>,
               header |-> <<>>]}
  /\ settings \in {[enabled |-> e, last_run_at |-> NoInstant] : e \in BOOLEAN}
  /\ bres = NoResult
  /\ createdAt = {}
  /\ clock = 0
  /\ lock = FreeLock
  /\ bproc = [p \in Procs |-> IdleProc]
  /\ sch = NoScheduler

SchedStart == \E p \in Scheduled : sched_start(p)
SchedResume == \E p \in Scheduled : sched_resume(p)
ManualStart == \E p \in Manual : manual_start(p)
CreateEntries == \E p \in Scheduled \cup Manual : create_entries(p)
CreateWrite == \E p \in Scheduled \cup Manual : create_write(p)
CreateCommit == \E p \in Scheduled \cup Manual : create_commit(p)
RestoreStart == \E p \in Restorers, request \in RestoreRequests : restore_start(p, request)
RestoreRows == \E p \in Restorers : restore_rows(p)
RestoreCommit == \E p \in Restorers : restore_commit(p)

NextBackupConc ==
  \/ SchedStart
  \/ SchedResume
  \/ ManualStart
  \/ CreateEntries
  \/ CreateWrite
  \/ CreateCommit
  \/ RestoreStart
  \/ RestoreRows
  \/ RestoreCommit

SpecBackupConc == InitBackupConc /\ [][NextBackupConc]_vars

\* every task that is ready to run is eventually run by the event loop
SpecBackupConcFair == SpecBackupConc /\ WF_vars(NextBackupConc)

\* ---- the backup directory between workbook.save and the unlink loop
\* create_global_dictionary_backup does not await between workbook.save and the
\* last unlink, so no other task runs there; the directory itself is in the
\* state that workbook.save left until the unlink loop has run.
Cleaning == \E q \in Procs : bproc[q].pc = "cleanup"

\* workbook.save(backup_path)
create_save(p) ==
  /\ bproc[p].pc = "write"
  /\ files' = WriteFile(files, bproc[p].filename, TRUE, bproc[p].entries)
  /\ bproc' = [bproc EXCEPT ![p] = [@ EXCEPT !.pc = "cleanup"]]
  /\ UNCHANGED <<lock, clock, createdAt, settings, bres, modVars, resp, hstate, sch>>

\* _list_backup_files, sort, keep = backups[:3], the unlink loop, up to
\* `await get_backup_settings(session)`
create_cleanup(p) ==
  /\ bproc[p].pc = "cleanup"
  /\ LET backups == _list_backup_files(files)
     IN  \E keep \in KeepChoices(backups) :
           /\ files' = (files \ backups) \cup keep
           /\ bproc' = [bproc EXCEPT ![p] =
                          [@ EXCEPT !.pc = "commit",
                                    !.kept = Cardinality(keep),
                                    !.deleted = Cardinality(backups \ keep)]]
  /\ UNCHANGED <<lock, clock, createdAt, settings, bres, modVars, resp, hstate, sch>>

\* a directory that holds two backups, one that holds three, and one that holds
\* three backups named for the next day
RetentionDirs ==
  { {[name |-> DateTimeName(0, 0), valid |-> TRUE, rows |-> BackupFileRows,
      header |-> ExpectedHeader],
     [name |-> DateName(0), valid |-> FALSE, rows |-> <<>>, header |-> <<>>]},
    {[name |-> DateTimeName(0, 0), valid |-> TRUE, rows |-> BackupFileRows,
      header |-> ExpectedHeader],
     [name |-> DateName(0), valid |-> FALSE, rows |-> <<>>, header |-> <<>>],
     [name |-> DateTimeName(1, 1), valid |-> FALSE, rows |-> <<>>,
      header |-> <<>>]},
    {[name |-> DateTimeName(1, 0), valid |-> TRUE, rows |-> BackupFileRows,
      header |-> ExpectedHeader],
     [name |-> DateName(1), valid |-> FALSE, rows |-> <<>>, header |-> <<>>],
     [name |-> DateTimeName(1, 1), valid |-> FALSE, rows |-> <<>>,
      header |-> <<>>]} }

InitRetention ==
  /\ shared = {GlobalDictionary(1, <<"a">>, <<"x">>, 9)}
  /\ nextId = 2
  /\ requests = {}
  /\ nextReqId = 1
  /\ personal = {}
  /\ resp = Response("none", None, 0, "none")
  /\ hstate = [h \in Handlers |-> Idle]
  /\ files \in RetentionDirs
  /\ settings \in {[enabled |-> e, last_run_at |-> NoInstant] : e \in BOOLEAN}
  /\ bres = NoResult
  /\ createdAt = {}
  /\ clock = 0
  /\ lock = FreeLock
  /\ bproc = [p \in Procs |-> IdleProc]
  /\ sch = NoScheduler

CreateSave == \E p \in Scheduled \cup Manual : create_save(p)
CreateCleanup == \E p \in Scheduled \cup Manual : create_cleanup(p)

\* the steps of the other tasks, which run only when no task is between its
\* workbook.save and the end of its unlink loop
RunStart == ~Cleaning /\ SchedStart
RunResume == ~Cleaning /\ SchedResume
RunManual == ~Cleaning /\ ManualStart
RunEntries == ~Cleaning /\ CreateEntries
RunSave == ~Cleaning /\ CreateSave
RunCommit == ~Cleaning /\ CreateCommit

NextRetention ==
  \/ RunStart
  \/ RunResume
  \/ RunManual
  \/ RunEntries
  \/ RunSave
  \/ CreateCleanup
  \/ RunCommit

SpecRetention == InitRetention /\ [][NextRetention]_vars

\* -------------------------------------------------------- backup scheduler
\* The scheduler task runs run_backup_scheduler; its run_task is run_backup_job
\* of lifespan, the call of run_backup_if_enabled made by task SchedulerJob.
\* Task LockHolder is a restore request that may hold the backup lock.
SchedulerJob == "s1"
LockHolder == "r1"
HolderRequest == [filename |-> DateTimeName(0, 0), mode |-> "merge"]

schRest == <<shared, nextId, requests, nextReqId, personal, resp, hstate,
             files, settings, bres, createdAt>>

\* a loop that never looks at stop_event
StopIgnored(s) == FALSE

\* stop_event.is_set()
StopRequested(s) == s.stop

\* a loop that waits again without running the job
AfterTimeoutWaitAgain(s) == [s EXCEPT !.pc = "loop"]

\* `await run_task()` after the TimeoutError
AfterTimeout(s) == [s EXCEPT !.pc = "job", !.ran = @ + 1]

\* The head of the loop, reached when the task starts and when run_task
\* returns: `while not stop_event.is_set()`, now, next_run, wait_seconds, and
\* the start of asyncio.wait_for(stop_event.wait(), timeout=wait_seconds).
scheduler_loop ==
  /\ \/ sch.pc = "loop"
     \/ sch.pc = "job" /\ bproc[SchedulerJob].pc = "done"
  /\ IF StopRequested(sch)
     THEN /\ sch' = [sch EXCEPT !.pc = "returned"]
          /\ UNCHANGED clock
     ELSE /\ sch.waits < MaxWaits
          /\ \E now \in {t \in Nows : clock <= t} :
               /\ sch' = [sch EXCEPT !.pc = "wait", !.now = now,
                                     !.next_run = get_next_run_at(now, sch.run_at_hour),
                                     !.waits = @ + 1]
               /\ clock' = now
  /\ UNCHANGED <<schRest, lock, bproc>>

\* stop_event.wait() returns inside wait_for: `break`
scheduler_wake ==
  /\ sch.pc = "wait"
  /\ sch.stop
  /\ sch' = [sch EXCEPT !.pc = "returned"]
  /\ UNCHANGED <<schRest, clock, lock, bproc>>

\* wait_seconds have passed: asyncio.TimeoutError, `if stop_event.is_set():
\* break`, then the call of run_task
scheduler_timeout ==
  /\ sch.pc = "wait"
  /\ \E t \in {t \in Nows : clock <= t /\ sch.next_run <= t} : clock' = t
  /\ IF StopRequested(sch)
     THEN /\ sch' = [sch EXCEPT !.pc = "returned"]
          /\ UNCHANGED bproc
     ELSE /\ sch' = AfterTimeout(sch)
          /\ bproc' = [bproc EXCEPT ![SchedulerJob] = IdleProc]
  /\ UNCHANGED <<schRest, lock>>

\* lifespan after `yield`: stop_event.set(), then
\* await asyncio.wait_for(scheduler_task, timeout=5)
lifespan_shutdown ==
  /\ sch.life = "up"
  /\ sch' = [sch EXCEPT !.stop = TRUE, !.life = "stopping",
                        !.stopped_in = IF sch.pc = "job" /\ bproc[SchedulerJob].pc = "done"
                                       THEN "loop" ELSE sch.pc]
  /\ UNCHANGED <<schRest, clock, lock, bproc>>

\* scheduler_task finished within the five seconds
lifespan_joined ==
  /\ sch.life = "stopping"
  /\ sch.pc = "returned"
  /\ sch' = [sch EXCEPT !.life = "down"]
  /\ UNCHANGED <<schRest, clock, lock, bproc>>

\* asyncio.Lock.acquire when its task is cancelled: the waiter leaves the
\* queue, and a lock handed to it goes to the next waiter
cancel_acquire(l, p) ==
  IF l.holder = p THEN release(l)
  ELSE [l EXCEPT !.waiters = SelectSeq(@, LAMBDA w : w # p)]

\* a shutdown that gives up after the five seconds
lifespan_abandon ==
  /\ sch.life = "stopping"
  /\ sch.pc # "returned"
  /\ sch' = [sch EXCEPT !.life = "down"]
  /\ UNCHANGED <<schRest, clock, lock, bproc>>

\* asyncio.TimeoutError after the five seconds: scheduler_task.cancel() and
\* await asyncio.gather(scheduler_task, return_exceptions=True). The
\* CancelledError leaves the wait, or the job through `async with _backup_lock`.
lifespan_cancel ==
  /\ sch.life = "stopping"
  /\ sch.pc # "returned"
  /\ sch' = [sch EXCEPT !.pc = "cancelled", !.life = "down"]
  /\ IF sch.pc = "job" /\ bproc[SchedulerJob].pc # "done"
     THEN /\ bproc' = [bproc EXCEPT ![SchedulerJob] = Done(SchedulerJob, "cancelled")]
          /\ lock' = IF bproc[SchedulerJob].pc = "start" THEN lock
                     ELSE cancel_acquire(lock, SchedulerJob)
     ELSE UNCHANGED <<lock, bproc>>
  /\ UNCHANGED <<schRest, clock>>

InitScheduler ==
  /\ shared = {GlobalDictionary(1, <<"a">>, <<"x">>, 9)}
  /\ nextId = 2
  /\ requests = {}
  /\ nextReqId = 1
  /\ personal = {}
  /\ resp = Response("none", None, 0, "none")
  /\ hstate = [h \in Handlers |-> Idle]
  /\ files = {[name |-> DateTimeName(0, 0), valid |-> TRUE, rows |-> BackupFileRows,
               header |-> ExpectedHeader]}
  /\ settings \in {[enabled |-> e, last_run_at |-> NoInstant] : e \in BOOLEAN}
  /\ bres = NoResult
  /\ createdAt = {}
  /\ clock = 0
  /\ lock = FreeLock
  /\ bproc = [p \in Procs |-> IdleProc]
  /\ sch \in {[NoScheduler EXCEPT !.run_at_hour = h] : h \in Hours}

SchedulerLoop == scheduler_loop
SchedulerWake == scheduler_wake
SchedulerTimeout == scheduler_timeout
JobStart == sch.pc = "job" /\ sched_start(SchedulerJob)
JobResume == sch.pc = "job" /\ sched_resume(SchedulerJob)
JobEntries == sch.pc = "job" /\ create_entries(SchedulerJob)
JobWrite == sch.pc = "job" /\ create_write(SchedulerJob)
JobCommit == sch.pc = "job" /\ create_commit(SchedulerJob)
HolderStart == restore_start(LockHolder, HolderRequest)
HolderRows == restore_rows(LockHolder)
HolderCommit == restore_commit(LockHolder)
LifespanShutdown == lifespan_shutdown
LifespanJoined == lifespan_joined
LifespanCancel == lifespan_cancel

NextScheduler ==
  \/ SchedulerLoop
  \/ SchedulerWake
  \/ SchedulerTimeout
  \/ JobStart
  \/ JobResume
  \/ JobEntries
  \/ JobWrite
  \/ JobCommit
  \/ HolderStart
  \/ HolderRows
  \/ HolderCommit
  \/ LifespanShutdown
  \/ LifespanJoined
  \/ LifespanCancel

SpecScheduler == InitScheduler /\ [][NextScheduler]_vars

\* timers fire and the event loop runs every task that is ready
SpecSchedulerFair == SpecScheduler /\ WF_vars(NextScheduler)

\* ---- the scheduler when run_task raises
\* a loop that catches what run_task raises and goes on
AfterRaiseSwallowed(s) == s

\* `await run_task()` raises: nothing in run_backup_scheduler catches it, the
\* coroutine ends with the exception
AfterRaise(s) == [s EXCEPT !.pc = "failed"]

\* an await of run_backup_job raises (the session, get_backup_settings,
\* get_global_entries, workbook.save or commit); `async with _backup_lock`
\* is left on the way out
job_raises(p) ==
  /\ sch.pc = "job"
  /\ bproc[p].pc \in {"start", "entries", "write", "commit"}
  /\ bproc' = [bproc EXCEPT ![p] = Done(p, "error")]
  /\ lock' = IF lock.holder = p THEN release(lock) ELSE lock
  /\ sch' = AfterRaise(sch)
  /\ UNCHANGED <<schRest, clock>>

\* await asyncio.wait_for(scheduler_task, timeout=5) on a task that has ended
\* with an exception: the exception is raised in lifespan
lifespan_raised ==
  /\ sch.life = "stopping"
  /\ sch.pc = "failed"
  /\ sch' = [sch EXCEPT !.life = "down"]
  /\ UNCHANGED <<schRest, clock, lock, bproc>>

JobRaises == job_raises(SchedulerJob)
LifespanRaised == lifespan_raised
LifespanCancelRunning == sch.pc # "failed" /\ lifespan_cancel

NextSchedulerFailing ==
  \/ SchedulerLoop
  \/ SchedulerWake
  \/ SchedulerTimeout
  \/ JobStart
  \/ JobResume
  \/ JobEntries
  \/ JobWrite
  \/ JobCommit
  \/ JobRaises
  \/ HolderStart
  \/ HolderRows
  \/ HolderCommit
  \/ LifespanShutdown
  \/ LifespanJoined
  \/ LifespanRaised
  \/ LifespanCancelRunning

SpecSchedulerFailing == InitScheduler /\ [][NextSchedulerFailing]_vars

\* ------------------------------------------------------ transcription texts
\* A text is a sequence of characters, each named by a token: KANA_E is the
\* kana e, CHOON the long-vowel mark, KUTEN and TOUTEN the Japanese full stop and
\* comma, FW_ a full-width form, IDSP the ideographic space, BS the backslash,
\* SZ the sharp s, BEL, BSP and FF the control characters of \a, \b and \f.
Whitespace == {"SP", "NL", "IDSP", "FF"}

LowerOf ==
  [c \in {"A", "B", "C", "E", "G", "M", "P", "Q", "S", "U", "X"} |->
     CASE c = "A" -> "a" [] c = "B" -> "b" [] c = "C" -> "c" [] c = "E" -> "e"
       [] c = "G" -> "g" [] c = "M" -> "m" [] c = "P" -> "p" [] c = "Q" -> "q"
       [] c = "S" -> "s" [] c = "U" -> "u" [] c = "X" -> "x"]

\* one character of str.lower(); the sharp s is its own lower case
LowerChar(c) == IF c \in DOMAIN LowerOf THEN LowerOf[c] ELSE c

\* str.lower()
Lower(t) == [i \in 1..Len(t) |-> LowerChar(t[i])]

RECURSIVE Flatten(_)
Flatten(ss) == IF ss = <<>> THEN <<>> ELSE Head(ss) \o Flatten(Tail(ss))

\* the full case folding of str.casefold(): the sharp s folds to two letters
FullCaseFold(t) ==
  Flatten([i \in 1..Len(t) |->
             IF t[i] = "SZ" THEN <<"s", "s">> ELSE <<LowerChar(t[i])>>])

AsciiLetters ==
  {"a", "b", "c", "e", "g", "m", "n", "p", "q", "s", "u", "x", "f"}
    \cup DOMAIN LowerOf
GroupDigits == {"1", "2", "3", "4", "5", "6", "7", "8", "9"}

\* ---- regular expressions
\* A pattern is a sequence of elements; an element is a character class that
\* matches once, or one or more times when plus is set; ic is re.IGNORECASE.
One(cls) == [cls |-> cls, plus |-> FALSE, ic |-> FALSE]
Many(cls) == [cls |-> cls, plus |-> TRUE, ic |-> FALSE]

\* the literal string s
Literal(s) == [k \in 1..Len(s) |-> One({s[k]})]

\* re.compile(re.escape(s), re.IGNORECASE)
LiteralIgnoreCase(s) ==
  [k \in 1..Len(s) |-> [cls |-> {LowerChar(s[k])}, plus |-> FALSE, ic |-> TRUE]]

ElemMatches(e, c) == (IF e.ic THEN LowerChar(c) ELSE c) \in e.cls

RECURSIVE RunLen(_, _, _)
RunLen(t, i, e) ==
  IF i <= Len(t) /\ ElemMatches(e, t[i]) THEN 1 + RunLen(t, i + 1, e) ELSE 0

MaxOf(S) == CHOOSE n \in S : \A m \in S : m <= n

\* the index after the match of pat[k..] that starts at t[i], or 0 when there
\* is none; a repeated class is greedy and gives characters back
RECURSIVE MatchEnd(_, _, _, _)
MatchEnd(t, i, pat, k) ==
  IF k > Len(pat) THEN i
  ELSE IF ~pat[k].plus
  THEN IF i <= Len(t) /\ ElemMatches(pat[k], t[i])
       THEN MatchEnd(t, i + 1, pat, k + 1)
       ELSE 0
  ELSE LET good == {n \in 1..RunLen(t, i, pat[k]) :
                      MatchEnd(t, i + n, pat, k + 1) # 0}
       IN  IF good = {} THEN 0 ELSE MatchEnd(t, i + MaxOf(good), pat, k + 1)

\* re.sub from position i on: each match becomes its first head characters,
\* then fixed, then its last tail characters
RECURSIVE SubFrom(_, _, _, _, _, _)
SubFrom(t, i, pat, head, fixed, tail) ==
  IF i > Len(t) THEN <<>>
  ELSE LET e == MatchEnd(t, i, pat, 1)
       IN  IF e = 0
           THEN <<t[i]>> \o SubFrom(t, i + 1, pat, head, fixed, tail)
           ELSE SubSeq(t, i, i + head - 1) \o fixed \o SubSeq(t, e - tail, e - 1)
                  \o SubFrom(t, e, pat, head, fixed, tail)

\* re.sub(pat, fixed, t)
Sub(t, pat, fixed) == SubFrom(t, 1, pat, 0, fixed, 0)
\* re.sub(pat, r'\1', t) where group 1 is the first character of the match
SubKeepFirst(t, pat) == SubFrom(t, 1, pat, 1, <<>>, 0)
\* re.sub(pat, r'\2', t) where group 2 is the last character of the match
SubKeepLast(t, pat) == SubFrom(t, 1, pat, 0, <<>>, 1)

\* str.replace(old, new)
Replace(t, old, new) == Sub(t, Literal(old), new)

\* re.sub('^[cls]+', '', t)
RECURSIVE StripLeading(_, _)
StripLeading(t, cls) ==
  IF t # <<>> /\ Head(t) \in cls THEN StripLeading(Tail(t), cls) ELSE t

RECURSIVE StripTrailing(_, _)
StripTrailing(t, cls) ==
  IF t # <<>> /\ t[Len(t)] \in cls
  THEN StripTrailing(SubSeq(t, 1, Len(t) - 1), cls)
  ELSE t

\* str.strip()
StripWhitespace(t) == StripTrailing(StripLeading(t, Whitespace), Whitespace)

\* re.sub(r'\s+', ' ', t).strip()
CollapseWhitespace(t) == StripWhitespace(Sub(t, <<Many(Whitespace)>>, <<"SP">>))

\* ---- cleanup passes
OpenParens == {"LPAREN", "FW_LPAREN"}
CloseParens == {"RPAREN", "FW_RPAREN"}

\* the alternatives of WHISPER_ANNOTATIONS, in lower case
AnnotationWords ==
  { <<"KANJI_ON", "KANJI_GAKU">>, <<"KANJI_ON">>,
    <<"KATA_E", "KATA_N", "KATA_DE", "KATA_SMALL_I", "KATA_N", "KATA_GU">>,
    <<"KANJI_HAKU", "KANJI_SHU">>,
    <<"KANJI_WARA", "KANA_I">>, <<"KANJI_WARA">>,
    <<"KANJI_WARA", "KANJI_KOE">>,
    <<"KANJI_SEKI">>,
    <<"KANA_TA", "KANA_ME", "KANJI_IKI">>,
    <<"KANJI_CHIN", "KANJI_MOKU">>,
    <<"KANJI_ZATSU", "KANJI_ON">>,
    <<"KATA_NO", "KATA_I", "KATA_ZU">>,
    <<"b", "g", "m">>, <<"s", "e">>,
    <<"KANJI_KOU", "KANJI_KA", "KANJI_ON">>,
    <<"KANJI_UTA">>,
    <<"m", "u", "s", "i", "c">>,
    <<"a", "p", "p", "l", "a", "u", "s", "e">>,
    <<"l", "a", "u", "g", "h", "t", "e", "r">>,
    <<"c", "o", "u", "g", "h">>,
    <<"s", "i", "g", "h">>,
    <<"s", "i", "l", "e", "n", "c", "e">>,
    <<"n", "o", "i", "s", "e">>,
    <<"s", "o", "u", "n", "d">> }

\* the index after the annotation that starts at t[i], or 0
AnnotationEnd(t, i) ==
  LET words == {w \in AnnotationWords :
                  /\ i + Len(w) + 1 <= Len(t)
                  /\ t[i] \in OpenParens
                  /\ Lower(SubSeq(t, i + 1, i + Len(w))) = w
                  /\ t[i + Len(w) + 1] \in CloseParens}
  IN  IF words = {} THEN 0 ELSE i + Len(CHOOSE w \in words : TRUE) + 2

\* WHISPER_ANNOTATIONS.sub('', t) from position i on
RECURSIVE WithoutAnnotations(_, _)
WithoutAnnotations(t, i) ==
  IF i > Len(t) THEN <<>>
  ELSE IF AnnotationEnd(t, i) = 0
  THEN <<t[i]>> \o WithoutAnnotations(t, i + 1)
  ELSE WithoutAnnotations(t, AnnotationEnd(t, i))

remove_whisper_annotations(text) ==
  IF text = <<>> THEN text
  ELSE CollapseWhitespace(WithoutAnnotations(text, 1))

JAPANESE_FILLERS ==
  << <<"KANA_E", "CHOON", "KANA_TO">>,
     <<"KANA_E", "KANA_SMALL_TSU", "KANA_TO">>,
     <<"KANA_E", "KANA_E", "KANA_TO">>,
     <<"KANA_A", "KANA_NO", "CHOON">>,
     <<"KANA_U", "CHOON", "KANA_N">>,
     <<"KANA_E", "CHOON">>,
     <<"KANA_E", "KANA_E">>,
     <<"KANA_MA", "KANA_A">>,
     <<"KANA_MA", "KANA_SMALL_A">>,
     <<"KANA_NA", "KANA_N", "KANA_KA">> >>

\* one turn of the loop over JAPANESE_FILLERS
WithoutFiller(t, filler) ==
  Replace(Replace(Replace(t, filler \o <<"TOUTEN">>, <<>>),
                  filler \o <<"FW_COMMA">>, <<>>),
          filler, <<>>)

RECURSIVE WithoutFillers(_, _)
WithoutFillers(t, fillers) ==
  IF fillers = <<>> THEN t
  ELSE WithoutFillers(WithoutFiller(t, Head(fillers)), Tail(fillers))

remove_fillers(text) ==
  IF text = <<>> THEN text
  ELSE CollapseWhitespace(
         StripLeading(WithoutFillers(text, JAPANESE_FILLERS),
                      {"TOUTEN", "FW_COMMA"} \cup Whitespace))

voice_language == "ja"

Stops == {"KUTEN", "TOUTEN"}
QuestionMarks == {"QM", "FW_QM"}
SpecialChars == {"HASH", "HYPHEN", "STAR"}
WidePunctuation == Stops \cup QuestionMarks \cup {"FW_COMMA", "FW_PERIOD"}

\* re.sub(r'^[。、?？]+$', '', t): $ also matches before a final newline
WithoutStandalone(t) ==
  LET body == IF t # <<>> /\ t[Len(t)] = "NL" THEN SubSeq(t, 1, Len(t) - 1) ELSE t
      only(s) == s # <<>> /\ \A i \in 1..Len(s) : s[i] \in Stops \cup QuestionMarks
  IN  IF only(t) THEN <<>>
      ELSE IF only(body) THEN <<"NL">>
      ELSE t

clean_punctuation(text) ==
  IF text = <<>> THEN text
  ELSE
  LET r1 == Sub(text, <<Many({"KUTEN"})>>, <<"KUTEN">>)
      r2 == Sub(r1, <<Many({"TOUTEN"})>>, <<"TOUTEN">>)
      r3 == Sub(r2, <<Many({"QM"})>>, <<"QM">>)
      r4 == Sub(r3, <<Many({"FW_QM"})>>, <<"FW_QM">>)
      r5 == Sub(r4, <<Many(Stops), One({"KUTEN"})>>, <<"KUTEN">>)
      r6 == Sub(r5, <<One({"KUTEN"}), Many(Stops)>>, <<"KUTEN">>)
      r7 == Sub(r6, <<One({"TOUTEN"}), One({"KUTEN"})>>, <<"KUTEN">>)
      r8 == Sub(r7, <<One({"KUTEN"}), Many(QuestionMarks)>>, <<"KUTEN">>)
      r9 == Sub(r8, <<One({"TOUTEN"}), Many(QuestionMarks)>>, <<"TOUTEN">>)
      r10 == Sub(r9, <<Many(QuestionMarks), One({"KUTEN"})>>, <<"KUTEN">>)
      r11 == Sub(r10, <<Many(QuestionMarks), One({"TOUTEN"})>>, <<"TOUTEN">>)
      r12 == Sub(r11, <<One({"NL"}), Many(Stops \cup QuestionMarks)>>, <<"NL">>)
      r13 == Sub(r12, <<One({"BS"}), One({"n"}), Many(Stops \cup QuestionMarks)>>,
                 <<"BS", "n">>)
      r14 == SubKeepFirst(r13, <<One(SpecialChars), Many(WidePunctuation)>>)
      r15 == SubKeepLast(r14, <<Many(WidePunctuation), One(SpecialChars)>>)
      r16 == StripLeading(r15, Whitespace \cup Stops \cup QuestionMarks
                                 \cup {"FW_PERIOD", "FW_COMMA", "NAKAGURO"})
      r17 == WithoutStandalone(r16)
      r18 == Sub(r17, <<Many(Whitespace), One(Stops \cup QuestionMarks),
                        Many(Whitespace)>>, <<"SP">>)
      r19 == StripWhitespace(Sub(r18, <<Many(Whitespace \ {"NL"})>>, <<"SP">>))
      r20 == SubKeepFirst(r19, <<One({"KUTEN", "FW_QM", "FW_EXCL"}),
                                 Many(Whitespace)>>)
  IN  IF voice_language = "ja" THEN Replace(r20, <<"QM">>, <<"FW_QM">>) ELSE r20

\* ---- the replacement engine
\* what apply_dictionary gives its caller: the text it returns, or the re.error
\* that leaves it
Returned(t) == [raised |-> FALSE, text |-> t]
Raised == [raised |-> TRUE, text |-> <<>>]

\* the escapes a replacement template knows, and the character each stands for
TemplateEscapes ==
  [c \in {"a", "b", "f", "n", "BS"} |->
     CASE c = "a" -> "BEL" [] c = "b" -> "BSP" [] c = "f" -> "FF"
       [] c = "n" -> "NL" [] c = "BS" -> "BS"]

\* regex.sub parses a replacement that holds a backslash as a template: the
\* pattern has no group, so \1..\9 is an invalid group reference; \g must be
\* followed by <, which no text here holds; a backslash before another ASCII
\* letter, or at the end, is a bad escape
RECURSIVE TemplateRaises(_)
TemplateRaises(r) ==
  IF r = <<>> THEN FALSE
  ELSE IF Head(r) # "BS" THEN TemplateRaises(Tail(r))
  ELSE IF Len(r) = 1 THEN TRUE
  ELSE IF r[2] \in DOMAIN TemplateEscapes THEN TemplateRaises(Tail(Tail(r)))
  ELSE IF r[2] \in GroupDigits \cup AsciiLetters THEN TRUE
  ELSE TemplateRaises(Tail(Tail(r)))

\* the text a template stands for
RECURSIVE Template(_)
Template(r) ==
  IF r = <<>> THEN <<>>
  ELSE IF Head(r) # "BS" \/ Len(r) = 1 THEN <<Head(r)>> \o Template(Tail(r))
  ELSE IF r[2] \in DOMAIN TemplateEscapes
  THEN <<TemplateEscapes[r[2]]>> \o Template(Tail(Tail(r)))
  ELSE <<"BS", r[2]>> \o Template(Tail(Tail(r)))

_replace_case_insensitive(text, pattern, replacement) ==
  IF pattern = <<>> THEN Returned(text)
  ELSE IF TemplateRaises(replacement) THEN Raised
  ELSE Returned(Sub(text, LiteralIgnoreCase(pattern), Template(replacement)))

\* the loop over user_entries, and over the global entries that are left
RECURSIVE ReplaceAll(_, _)
ReplaceAll(result, entries) ==
  IF entries = <<>> \/ result.raised THEN result
  ELSE ReplaceAll(_replace_case_insensitive(result.text, Head(entries).pattern,
                                            Head(entries).replacement),
                  Tail(entries))

\* applied_patterns.add(entry.pattern.lower())
AppliedKey(pattern) == Lower(pattern)

\* the body of apply_dictionary after the two awaited queries
apply_entries(text, user_entries, global_entries) ==
  IF text = <<>> THEN Returned(text)
  ELSE
  LET cleaned == remove_fillers(remove_whisper_annotations(text))
      applied_patterns == {AppliedKey(user_entries[i].pattern) :
                             i \in 1..Len(user_entries)}
      NotApplied(entry) == AppliedKey(entry.pattern) \notin applied_patterns
      afterUser == ReplaceAll(Returned(cleaned), user_entries)
      afterGlobal == ReplaceAll(afterUser, SelectSeq(global_entries, NotApplied))
  IN  IF afterGlobal.raised THEN Raised
      ELSE Returned(clean_punctuation(afterGlobal.text))

\* a query without the where clause
get_every_entry(rows, user_id) == rows

\* select(UserDictionary).where(UserDictionary.user_id == user_id)
get_user_entries(rows, user_id) == {e \in rows : e.user_id = user_id}

\* the lists a select without ORDER BY may return
RECURSIVE ListsOf(_)
ListsOf(rows) ==
  IF rows = {} THEN {<<>>}
  ELSE UNION {{<<e>> \o l : l \in ListsOf(rows \ {e})} : e \in rows}

\* the results apply_dictionary(text, user_id) may give over tables rows, globals
apply_dictionary(text, user_id, rows, globals) ==
  {apply_entries(text, user_entries, RowsOf(globals)) :
     user_entries \in ListsOf(get_user_entries(rows, user_id))}

\* ---- transcriptions
PostUsers == {1, 2}
MaxFillerLen == 4
MaxWordLen == 2
Transcriber == "h1"

PersonalSz == UserDictionary(1, <<"SZ">>, <<"P">>, FALSE)
PersonalA == UserDictionary(1, <<"a">>, <<"P">>, FALSE)
PersonalTemplate == UserDictionary(1, <<"b">>, <<"BS", "1">>, FALSE)
OtherUsersA == UserDictionary(2, <<"a">>, <<"Q">>, FALSE)

PostPersonalTables ==
  { {}, {PersonalA}, {PersonalSz}, {PersonalTemplate}, {OtherUsersA},
    {PersonalA, OtherUsersA}, {PersonalA, PersonalSz} }

SharedA == GlobalDictionary(1, <<"A">>, <<"G">>, 9)
SharedSs == GlobalDictionary(2, <<"s", "s">>, <<"G">>, 9)
SharedNewline == GlobalDictionary(3, <<"x">>, <<"BS", "n">>, 9)

PostSharedTables == { {}, {SharedA}, {SharedSs}, {SharedA, SharedSs, SharedNewline} }

SeqsUpTo(S, n) == UNION {[1..k -> S] : k \in 0..n}

PostTexts ==
  SeqsUpTo({"KANA_E", "CHOON"}, MaxFillerLen)
    \cup SeqsUpTo({"a", "A", "b", "s", "x", "KUTEN"}, MaxWordLen)
    \cup { <<"LPAREN", "KANJI_ON", "RPAREN", "a">>, <<"a", "QM", "SP", "b">>,
           <<"SP">>, <<"SP", "SP", "SP">>, <<"NL", "SP">> }

\* the response of POST /api/transcribe: 200 with the processed text, or the
\* 500 of an exception that apply_dictionary let through
Transcribed(u, text, result) ==
  [op |-> "transcribe", id |-> u, code |-> IF result.raised THEN 500 ELSE 200,
   detail |-> IF result.raised THEN "re.error" ELSE "ok",
   text |-> text, out |-> result.text]

\* raw_text = await whisper_client.transcribe(...)
transcribe_whisper(h, u, raw_text) ==
  /\ hstate[h].pc = "idle"
  /\ hstate' = [hstate EXCEPT ![h] = [pc |-> "transcribed", op |-> "transcribe",
                                      rid |-> 0, admin |-> 0, code |-> 0,
                                      user |-> u, raw_text |-> raw_text]]
  /\ UNCHANGED <<shared, nextId, requests, nextReqId, personal, resp, backupVars>>

\* processed_text = await apply_dictionary(raw_text, current_user.id)
transcribe_apply(h) ==
  /\ hstate[h].pc = "transcribed"
  /\ \E result \in apply_dictionary(hstate[h].raw_text, hstate[h].user,
                                    personal, shared) :
       /\ resp' = Transcribed(hstate[h].user, hstate[h].raw_text, result)
       /\ hstate' = Finish(h, resp'.code)
  /\ UNCHANGED <<shared, nextId, requests, nextReqId, personal, backupVars>>

\* the same user's next audio, heard as the text the last response returned
transcribe_again(h) ==
  /\ hstate[h].pc = "done"
  /\ resp.op = "transcribe"
  /\ resp.code = 200
  /\ hstate' = [hstate EXCEPT ![h].pc = "transcribed", ![h].code = 0,
                              ![h].raw_text = resp.out]
  /\ UNCHANGED <<shared, nextId, requests, nextReqId, personal, resp, backupVars>>

InitPostprocess ==
  /\ shared \in PostSharedTables
  /\ nextId = 4
  /\ requests = {}
  /\ nextReqId = 1
  /\ personal \in PostPersonalTables
  /\ resp = Response("none", None, 0, "none")
  /\ hstate = [h \in Handlers |-> Idle]
  /\ files = {}
  /\ settings = [enabled |-> FALSE, last_run_at |-> NoInstant]
  /\ bres = NoResult
  /\ createdAt = {}
  /\ clock = 0
  /\ lock = FreeLock
  /\ bproc = [p \in Procs |-> IdleProc]
  /\ sch = NoScheduler

Transcribe ==
  \E u \in PostUsers, text \in PostTexts : transcribe_whisper(Transcriber, u, text)
ApplyDictionary == transcribe_apply(Transcriber)
TranscribeOutput == transcribe_again(Transcriber)

NextPostprocess == Transcribe \/ ApplyDictionary \/ TranscribeOutput

SpecPostprocess == InitPostprocess /\ [][NextPostprocess]_vars

\* ======================================================== moderation claims
NS(text) == normalize_dictionary_text_case_sensitive(text)

IsPendingRequest(rid) ==
  HasRequest(rid) /\ ReqById(rid).status = REQUEST_STATUS_PENDING

IsResolvedRequest(rid) ==
  HasRequest(rid) /\
  ReqById(rid).status \in {REQUEST_STATUS_APPROVED, REQUEST_STATUS_REJECTED}

\* C1: a successful approve of a Pending request whose normalized pattern
\* equals that of a Shared entry with a different normalized replacement
\* removes that entry and adds a new Shared entry carrying the request's
\* pattern and replacement.
C1_ApproveReplacesConflict ==
  [][\A rid \in 1..MaxRequests, a \in Admins :
       (/\ IsPendingRequest(rid)
        /\ approve_dictionary_request(rid, a)
        /\ \E e \in shared :
              /\ Norm(e.pattern) = Norm(ReqById(rid).pattern)
              /\ NS(e.replacement) # NS(ReqById(rid).replacement))
       => (/\ \A e \in shared :
                (/\ Norm(e.pattern) = Norm(ReqById(rid).pattern)
                 /\ NS(e.replacement) # NS(ReqById(rid).replacement))
                => e \notin shared'
           /\ \E n \in shared' :
                /\ \A e \in shared : e.id # n.id
                /\ n.pattern = ReqById(rid).pattern
                /\ n.replacement = ReqById(rid).replacement)]_vars

\* C2: a successful approve of a Pending request whose normalized pattern and
\* normalized replacement both equal those of a Shared entry leaves the
\* Shared dictionary as it was and marks the request Approved.
C2_ApproveSameReplacementNoOp ==
  [][\A rid \in 1..MaxRequests, a \in Admins :
       (/\ IsPendingRequest(rid)
        /\ approve_dictionary_request(rid, a)
        /\ \E e \in shared :
              /\ Norm(e.pattern) = Norm(ReqById(rid).pattern)
              /\ NS(e.replacement) = NS(ReqById(rid).replacement))
       => (/\ shared' = shared
           /\ \E q \in requests' :
                q.id = rid /\ q.status = REQUEST_STATUS_APPROVED)]_vars

\* C3: with sequential calls, approve or reject on a request that is already
\* Approved or Rejected fails with NotPending and changes no table.
C3_ModerationOneShot ==
  [][\A rid \in 1..MaxRequests, a \in Admins :
       (/\ IsResolvedRequest(rid)
        /\ \/ approve_dictionary_request(rid, a)
           \/ reject_dictionary_request(rid, a))
       => (/\ resp'.code = 400
           /\ resp'.detail = "not_pending"
           /\ UNCHANGED modVars)]_vars

\* approve succeeded, then reject on the same id was refused
C3_Witness ==
  /\ resp.op = "reject"
  /\ resp.detail = "not_pending"
  /\ HasRequest(resp.id)
  /\ ReqById(resp.id).status = REQUEST_STATUS_APPROVED
  /\ ReqById(resp.id).reviewed_by \in Admins

\* C9: no two Shared entries have the same normalized pattern.
C9_SharedPatternUnique ==
  \A e1, e2 \in shared :
    e1 # e2 => Norm(e1.pattern) # Norm(e2.pattern)

\* C10: when an approve handler and a reject handler run interleaved on the
\* same Pending request, each reading the status, mutating and committing, at
\* most one of them succeeds (so only one's effects are applied).
C10_LeavesPendingOnce ==
  \A h1, h2 \in Handlers :
    (/\ hstate[h1].op = "approve" /\ hstate[h2].op = "reject"
     /\ hstate[h1].rid = hstate[h2].rid
     /\ hstate[h1].pc = "done" /\ hstate[h2].pc = "done")
    => ~(hstate[h1].code = 200 /\ hstate[h2].code = 200)

\* ============================================================ backup claims
MatchingNames(dir) == {f.name : f \in _list_backup_files(dir)}
CreatedNames(instants) == {BackupFileName(t) : t \in instants}
CreateReturns == (RunBackupNow \/ ScheduledRun) /\ bres'.op = "backup"

InJob(p) == bproc[p].pc \in {"entries", "write", "rows", "commit"}
LockUsers == Scheduled \cup Restorers
ValidRequest(request) ==
  ValidFileName(request.filename) /\ request.mode \in {"merge", "replace"}

\* C4: at every instant at most one backup creation or restore is in progress,
\* counting scheduled runs, manual runs and restores.
C4_AtMostOneBackupOrRestore ==
  Cardinality({p \in Procs : InJob(p)}) <= 1

C6_ConcurrentRestoresOneSuccessOneConflict ==
  /\ [](\A r1 \in Restorers, r2 \in Restorers :
          (InJob(r1) /\ InJob(r2)) => r1 = r2)
  /\ [](\A r \in Restorers :
          (bproc[r].outcome = "conflict" /\ bproc[r].blockedBy \in Restorers)
            => \/ InJob(bproc[r].blockedBy)
               \/ bproc[bproc[r].blockedBy].outcome = "ok")
  /\ [][\A r \in Restorers, r2 \in Restorers, request \in RestoreRequests :
          (restore_start(r, request) /\ ValidRequest(request) /\ InJob(r2))
            => /\ bproc'[r].pc = "done"
               /\ bproc'[r].outcome = "conflict"
               /\ bproc'[r].blockedBy = r2]_vars

\* two overlapping restores have both returned: one 200, one 409
C6_Witness ==
  \E r1 \in Restorers, r2 \in Restorers :
    /\ bproc[r1].pc = "done" /\ bproc[r1].outcome = "ok"
    /\ bproc[r2].pc = "done" /\ bproc[r2].outcome = "conflict"
    /\ bproc[r2].blockedBy = r1

\* C7: the jobs run under the backup lock never overlap, and every job
\* submitted through run_with_backup_lock runs to completion.
C7_LockedJobsSerializedAndComplete ==
  /\ [](Cardinality({p \in LockUsers : InJob(p)}) <= 1)
  /\ \A p \in Scheduled :
       (bproc[p].pc \in {"waiting", "entries", "write", "commit"})
         ~> (bproc[p].pc = "done" /\ bproc[p].outcome = "ok")

\* two scheduled runs were submitted together; the second waited for the first
\* and both have completed
C7_Witness ==
  \E p \in Scheduled, q \in Scheduled :
    /\ p # q
    /\ bproc[p].pc = "done" /\ bproc[p].outcome = "ok"
    /\ bproc[q].pc = "done" /\ bproc[q].outcome = "ok"
    /\ bproc[q].blockedBy = p

\* =========================================================== restore claims
RestoreReturns(request) ==
  restore_backup_endpoint(request) /\ bres'.outcome = "ok"
FileRows(name) == FileByName(files, name).rows
RowIndexes(name) == 1..Len(FileRows(name))
Blank(cell) == Strip(cell) = <<>>
NonBlankRows(name) ==
  {i \in RowIndexes(name) :
     ~(Blank(FileRows(name)[i].pattern) /\ Blank(FileRows(name)[i].replacement))}
HalfBlankRows(name) ==
  {i \in NonBlankRows(name) :
     Blank(FileRows(name)[i].pattern) \/ Blank(FileRows(name)[i].replacement)}
UsableRows(name) == NonBlankRows(name) \ HalfBlankRows(name)

C12_MergeTwiceAddsNothing ==
  [][\A request \in RestoreRequestPool :
       (/\ RestoreReturns(request) /\ request.mode = "merge"
        /\ bres.op = "restore" /\ bres.outcome = "ok" /\ bres.mode = "merge"
        /\ bres.restored_file = request.filename)
         => /\ bres'.added = 0
            /\ bres'.total = bres.total
            /\ bres'.failed = bres.failed
            /\ bres'.skipped = bres'.total - bres'.failed
            /\ shared' = shared
            /\ nextId' = nextId]_vars

\* the second of two Merge-mode restores of the file with a half-blank row has
\* returned
C12_Witness ==
  /\ bres.op = "restore" /\ bres.outcome = "ok" /\ bres.mode = "merge"
  /\ bres.restored_file = DateTimeName(0, 1)
  /\ bres.added = 0 /\ bres.failed = 1 /\ bres.skipped = 2 /\ bres.total = 3
  /\ nextId = 6
  /\ Cardinality(shared) = 2

\* C12 (as stated): the second restore reports added = 0 and skipped = total.
C12_SecondMergeSkipsAll ==
  [][\A request \in RestoreRequestPool :
       (/\ RestoreReturns(request) /\ request.mode = "merge"
        /\ bres.op = "restore" /\ bres.outcome = "ok" /\ bres.mode = "merge"
        /\ bres.restored_file = request.filename)
         => /\ bres'.added = 0
            /\ bres'.skipped = bres'.total
            /\ shared' = shared]_vars

C20_RowOutcomesAggregated ==
  [][\A request \in RestoreRequestPool :
       RestoreReturns(request)
         => LET name == request.filename
                rows == FileRows(name)
                before == IF request.mode = "replace" THEN {}
                          ELSE {e.pattern : e \in shared}
                repeated == {i \in UsableRows(name) :
                               \/ Strip(rows[i].pattern) \in before
                               \/ \E j \in UsableRows(name) :
                                    j < i /\ Strip(rows[j].pattern) = Strip(rows[i].pattern)}
            IN  /\ bres'.total = Cardinality(NonBlankRows(name))
                /\ bres'.failed = Cardinality(HalfBlankRows(name))
                /\ bres'.skipped = Cardinality(repeated)
                /\ bres'.added = Cardinality(UsableRows(name) \ repeated)
                /\ \A i \in UsableRows(name) :
                     \E e \in shared' : e.pattern = Strip(rows[i].pattern)
                /\ \A i \in UsableRows(name) \ repeated :
                     \E e \in shared' \ shared :
                       /\ e.pattern = Strip(rows[i].pattern)
                       /\ e.replacement = Strip(rows[i].replacement)
                /\ request.mode = "merge" => shared \subseteq shared'
                /\ Cardinality(shared' \ shared) = bres'.added]_vars

\* a Merge-mode restore has passed over a blank row, failed on a half-blank
\* row, added the row after it and skipped the row whose pattern existed, whose
\* entry keeps its replacement
C20_Witness ==
  /\ bres.op = "restore" /\ bres.outcome = "ok" /\ bres.mode = "merge"
  /\ bres.restored_file = DateTimeName(0, 1)
  /\ bres.total = 3 /\ bres.failed = 1 /\ bres.added = 1 /\ bres.skipped = 1
  /\ GlobalDictionary(1, <<"a">>, <<"x">>, 9) \in shared
  /\ \E e \in shared : e.id >= 4 /\ e.pattern = <<"b">> /\ e.replacement = <<"x">>

\* ========================================================= scheduler claims
\* C18: when BackupSettings.enabled is false, run_backup_if_enabled returns
\* without a result and without touching the backup directory, the lock or
\* last_run_at; when it is true, the backup is created by the holder of the
\* lock: every step of the scheduled backup is taken while the run holds it.
C18_DisabledRunIsNoOp ==
  [][\A p \in Scheduled :
       /\ (sched_start(p) /\ ~settings.enabled)
            => /\ bproc'[p].pc = "done" /\ bproc'[p].outcome = "skipped"
               /\ files' = files
               /\ settings' = settings
               /\ lock' = lock
               /\ bres' = bres
               /\ createdAt' = createdAt
       /\ (sched_start(p) /\ settings.enabled)
            => \/ lock'.holder = p /\ bproc'[p].pc = "entries"
               \/ lock'.holder # p /\ bproc'[p].pc = "waiting"
       /\ (create_entries(p) \/ create_write(p) \/ create_commit(p))
            => lock.holder = p]_vars

\* both scheduled runs have returned without a result: nothing was written,
\* the lock is free and last_run_at was never set
C18_Witness ==
  /\ ~settings.enabled
  /\ \A p \in Scheduled : bproc[p].pc = "done" /\ bproc[p].outcome = "skipped"
  /\ \A p \in Manual : bproc[p].pc = "start"
  /\ settings.last_run_at = NoInstant
  /\ createdAt = {}
  /\ lock.waiters = <<>>

\* the scheduler has computed next_run from its reading now
NextRunComputed == sch.waits > 0
\* today at h:00:00, for the day of the reading and the scheduler's run hour
TodayAtHour == DayOf(sch.now) * TicksPerDay + sch.run_at_hour * TicksPerSecond

\* C15 (as amended): for every instant now and run hour h, get_next_run_at
\* returns today at h:00:00 when that instant is not earlier than now, and
\* tomorrow at h:00:00 otherwise; hence the result is never earlier than now,
\* equals now only when now is exactly today at h:00:00, and is at most 24
\* hours after now.
C15_NextRunTodayOrTomorrow ==
  NextRunComputed =>
    /\ sch.next_run = IF TodayAtHour >= sch.now THEN TodayAtHour
                      ELSE TodayAtHour + TicksPerDay
    /\ sch.next_run >= sch.now
    /\ (sch.next_run = sch.now => sch.now = TodayAtHour)
    /\ sch.next_run - sch.now <= TicksPerDay

\* C15 witness: a reading later than today's run instant, answered by tomorrow's
C15_Witness ==
  /\ NextRunComputed
  /\ sch.now > TodayAtHour
  /\ sch.next_run = TodayAtHour + TicksPerDay

\* C15 as stated: today only when strictly later than now, so that the result
\* is always strictly later than now
C15_AlwaysStrictlyLater ==
  NextRunComputed =>
    /\ sch.next_run = IF TodayAtHour > sch.now THEN TodayAtHour
                      ELSE TodayAtHour + TicksPerDay
    /\ sch.next_run > sch.now
    /\ sch.next_run - sch.now <= TicksPerDay

\* C16: when now is exactly today at h:00:00, get_next_run_at returns that
\* same instant (today, a wait of zero), not tomorrow.
C16_BoundaryIsToday ==
  (NextRunComputed /\ sch.now = TodayAtHour) =>
    /\ sch.next_run = sch.now
    /\ sch.next_run # TodayAtHour + TicksPerDay

\* C16 witness: a reading at the run instant of a later hour, answered by itself
C16_Witness ==
  /\ NextRunComputed
  /\ sch.run_at_hour > 0
  /\ sch.now = TodayAtHour
  /\ sch.next_run = sch.now

\* the scheduler task has ended: run_backup_scheduler returned or was cancelled
SchedulerEnded == sch.pc \in {"returned", "cancelled"}
JobRunning == sch.pc = "job" /\ bproc[SchedulerJob].pc # "done"

\* C13: once the stop signal is set no job invocation starts; set before or
\* during the timed wait, the scheduler ends without invoking the job; set
\* while the job is running, the loop exits after that run with no further
\* wait or run.
C13_NoJobAfterStop ==
  [][/\ sch.stop => /\ sch'.ran = sch.ran
                    /\ sch'.waits = sch.waits
                    /\ sch'.stop
     /\ (sch.stop /\ sch.pc \in {"loop", "wait"}) =>
          sch'.pc \in {sch.pc, "returned", "cancelled"}
     /\ (sch.stop /\ JobRunning) => sch'.pc \in {"job", "cancelled"}
     /\ (sch.stop /\ sch.pc = "job" /\ ~JobRunning) =>
          sch'.pc \in {"job", "returned", "cancelled"}
     /\ SchedulerEnded => sch'.pc = sch.pc]_vars

\* C13 witness: stop was set while the job was running, the job went on to
\* write its backup, and the loop then returned without another wait
C13_Witness ==
  /\ sch.pc = "returned"
  /\ sch.stopped_in = "job"
  /\ sch.ran = 1
  /\ sch.waits = 1
  /\ bproc[SchedulerJob].outcome = "ok"

\* C14: each time the timed wait expires with the stop signal not set, the job
\* is invoked exactly once before the next wait begins; the next-run instant
\* is recomputed from a fresh reading of the clock after the job returns; the
\* job is never invoked without a preceding wait expiry.
C14_OneJobPerExpiry ==
  /\ [][/\ (scheduler_timeout /\ ~sch.stop) =>
             /\ sch'.pc = "job"
             /\ sch'.ran = sch.ran + 1
             /\ bproc'[SchedulerJob].pc = "start"
        /\ sch'.ran # sch.ran =>
             /\ sch.pc = "wait"
             /\ sch.ran = sch.waits - 1
             /\ sch.next_run <= clock'
             /\ sch'.ran = sch.ran + 1
        /\ sch'.waits # sch.waits =>
             /\ sch'.waits = sch.waits + 1
             /\ sch.ran = sch.waits
             /\ sch.ran > 0 => sch.pc = "job" /\ bproc[SchedulerJob].pc = "done"
             /\ clock <= sch'.now
             /\ sch'.now = clock'
             /\ sch'.next_run = get_next_run_at(sch'.now, sch.run_at_hour)]_vars
  /\ [](sch.ran <= sch.waits /\ sch.waits <= sch.ran + 1)
  /\ [](sch.pc = "job" => sch.ran = sch.waits)

\* C14 witness: the second wait has begun, after one run of the job that made
\* a backup, from a reading not earlier than the job's last one
C14_Witness ==
  /\ sch.pc = "wait"
  /\ sch.waits = 2
  /\ sch.ran = 1
  /\ bproc[SchedulerJob].outcome = "ok"
  /\ settings.last_run_at # NoInstant
  /\ settings.last_run_at <= sch.now

\* C17: on shutdown the lifespan handler sets the stop signal, waits a bounded
\* time for the scheduler task and cancels it if it has not exited; whether the
\* scheduler was waiting, its job in progress, or its job blocked on the backup
\* lock, shutdown completes and the scheduler task has ended when it does.
C17_ShutdownEndsScheduler ==
  /\ [](sch.life # "up" => sch.stop)
  /\ [](sch.life = "down" =>
          /\ SchedulerEnded
          /\ lock.holder # SchedulerJob
          /\ \A i \in 1..Len(lock.waiters) : lock.waiters[i] # SchedulerJob)
  /\ (sch.life = "stopping") ~> (sch.life = "down")

\* C17 witness: shutdown is complete after cancelling a scheduler whose job
\* was blocked on the backup lock held by a restore
C17_Witness ==
  /\ sch.life = "down"
  /\ sch.pc = "cancelled"
  /\ sch.stopped_in = "job"
  /\ bproc[SchedulerJob].outcome = "cancelled"
  /\ bproc[SchedulerJob].blockedBy = LockHolder
  /\ lock.holder = LockHolder

\* =========================================================== restore, names
\* the filename has a directory component
HasDirectoryComponent(name) == name.kind \in {"outside", "bad"}
DirectoryRequests == {r \in RestoreRequests : HasDirectoryComponent(r.filename)}

\* C21: RestoreBackup rejects every filename that contains a directory
\* component: the request fails (400) before the backup lock is taken, before
\* any file is opened and before any Shared entry is touched.
C21_DirectoryNameRejectedBeforeLock ==
  [][\A p \in Restorers, request \in DirectoryRequests :
       restore_start(p, request) =>
         /\ bproc'[p].pc = "done"
         /\ bproc'[p].outcome = "invalid"
         /\ RestoreStatus(bproc'[p].outcome) = 400
         /\ bproc'[p].entries = <<>>
         /\ bproc'[p].blockedBy = NoProc
         /\ lock' = lock
         /\ shared' = shared
         /\ files' = files]_vars

\* C21 witness: a request was rejected for its name or mode while another
\* restore held the lock, without having met the lock, and a request that
\* names a file outside the backup directory is among those served
C21_Witness ==
  /\ \E r \in DirectoryRequests : HasXlsxSuffix(r.filename)
  /\ \E p \in Restorers :
       /\ bproc[p].outcome = "invalid"
       /\ bproc[p].blockedBy = NoProc
       /\ lock.holder \in Restorers \ {p}

\* ============================================================= quota claims
\* the user's requests that count against the quota
QuotaCount(u) ==
  Cardinality({q \in requests : /\ q.user_id = u
                                /\ q.status \in {REQUEST_STATUS_PENDING,
                                                 REQUEST_STATUS_REJECTED}})

\* C22: submit by a user fails on the quota, creating no request, exactly when
\* that user's count of Pending plus Rejected requests has reached 200;
\* Approved requests do not count.  After any sequence of sequential submit,
\* approve, reject and delete calls each user's count is at most 200.
C22_QuotaOnPendingPlusRejected ==
  /\ [][\A u \in Users, p \in QuotaPatternPool, r \in QuotaReplacementPool :
          create_dictionary_request(u, p, r) =>
            /\ (QuotaCount(u) >= REQUEST_LIMIT) <=> (resp'.detail = "limit")
            /\ resp'.detail = "limit" =>
                 /\ resp'.code = 400
                 /\ requests' = requests
                 /\ nextReqId' = nextReqId]_vars
  /\ [](\A u \in Users : QuotaCount(u) <= REQUEST_LIMIT)

\* C22 witness: a submit failed on the quota with 200 Pending and Rejected
\* requests, some of each, and an Approved one besides
C22_Witness ==
  /\ resp.op = "submit"
  /\ resp.detail = "limit"
  /\ QuotaCount(1) = REQUEST_LIMIT
  /\ \E q \in requests : q.status = REQUEST_STATUS_PENDING
  /\ \E q \in requests : q.status = REQUEST_STATUS_REJECTED
  /\ \E q \in requests : q.status = REQUEST_STATUS_APPROVED

\* equal after width folding, stripping and case folding
SameText(t1, t2) == CaseFold(Strip(NFKC(t1))) = CaseFold(Strip(NFKC(t2)))
SamePair(p1, r1, p2, r2) == SameText(p1, p2) /\ SameText(r1, r2)

\* some Shared entry or some Pending request holds the pair, up to normalization
PairExists(p, r) ==
  \/ \E e \in shared : SamePair(e.pattern, e.replacement, p, r)
  \/ \E q \in requests : /\ q.status = REQUEST_STATUS_PENDING
                         /\ SamePair(q.pattern, q.replacement, p, r)

SubmitAccepted(u, p, r) ==
  /\ resp'.code = 201
  /\ \E q \in requests' \ requests :
       /\ q.user_id = u /\ q.pattern = p /\ q.replacement = r
       /\ q.status = REQUEST_STATUS_PENDING
       /\ requests' = requests \cup {q}

MarkerCount(u) == Cardinality({e \in personal : e.user_id = u /\ e.is_rejected})
HasPersonalEntry(u, p) == \E e \in personal : e.user_id = u /\ e.pattern = p
IsPendingUnreviewed(q) ==
  /\ q.status = REQUEST_STATUS_PENDING
  /\ q.reviewed_by = None
  /\ q.reviewed_at = None

\* C24: if the requester has no personal entry for the request's pattern and
\* already holds 200 rejection markers, reject fails with the limit error, the
\* request remains Pending with reviewed_by and reviewed_at unset, and no
\* personal entry is added.
C24_RejectFailsAtMarkerLimit ==
  [][\A rid \in RacedRequestIds, a \in Admins :
       (/\ reject_dictionary_request(rid, a)
        /\ \E q \in requests :
             /\ q.id = rid
             /\ IsPendingUnreviewed(q)
             /\ ~HasPersonalEntry(q.user_id, q.pattern)
             /\ MarkerCount(q.user_id) >= USER_DICTIONARY_REJECTED_LIMIT) =>
         /\ resp' = Response("reject", rid, 400, "limit")
         /\ requests' = requests
         /\ personal' = personal
         /\ \E q \in requests' : q.id = rid /\ IsPendingUnreviewed(q)]_vars

\* C24 witness: a reject failed on the limit with 200 markers held, and its
\* request is still Pending
C24_Witness ==
  /\ resp.op = "reject"
  /\ resp.detail = "limit"
  /\ MarkerCount(1) = USER_DICTIONARY_REJECTED_LIMIT
  /\ \E q \in requests :
       /\ q.id = resp.id
       /\ IsPendingUnreviewed(q)
       /\ ~HasPersonalEntry(q.user_id, q.pattern)

\* ======================================================= moderation, reject
PersonalEntriesFor(rows, u, p) == {e \in rows : e.user_id = u /\ e.pattern = p}

\* C25: after a successful reject the request is Rejected with moderator and
\* instant recorded, and the requester has exactly one personal entry with the
\* request's exact pattern: a pre-existing personal entry is left unchanged and
\* no second one is added; otherwise a new rejection marker carrying the
\* request's replacement is inserted.  No Shared entry is changed by reject.
C25_RejectMarksOnce ==
  [][\A rid \in 1..MaxRequests, a \in Admins :
       (reject_dictionary_request(rid, a) /\ resp'.code = 200) =>
         \E q \in requests :
           /\ q.id = rid
           /\ \E t \in Instants :
                requests' = (requests \ {q}) \cup
                  {[id |-> q.id, user_id |-> q.user_id, pattern |-> q.pattern,
                    replacement |-> q.replacement,
                    status |-> REQUEST_STATUS_REJECTED, reviewed_by |-> a,
                    reviewed_at |-> t]}
           /\ Cardinality(PersonalEntriesFor(personal', q.user_id, q.pattern)) = 1
           /\ IF PersonalEntriesFor(personal, q.user_id, q.pattern) # {}
              THEN personal' = personal
              ELSE personal' = personal \cup
                     {[user_id |-> q.user_id, pattern |-> q.pattern,
                       replacement |-> q.replacement, is_rejected |-> TRUE]}
           /\ shared' = shared
           /\ nextId' = nextId]_vars

\* C25 witness: a request was rejected whose requester had typed an entry of
\* their own for the same pattern with another replacement; it is still their
\* only entry for the pattern
C25_Witness ==
  /\ resp.op = "reject"
  /\ resp.code = 200
  /\ \E q \in requests :
       /\ q.id = resp.id
       /\ q.status = REQUEST_STATUS_REJECTED
       /\ q.reviewed_by \in Admins
       /\ q.reviewed_at \in Instants
       /\ \E e \in personal :
            /\ ~e.is_rejected
            /\ e.replacement # q.replacement
            /\ PersonalEntriesFor(personal, q.user_id, q.pattern) = {e}

\* ==================================================== transcription claims
\* the step in which the transcriber's apply_dictionary returns or raises
Applying == hstate[Transcriber].pc = "transcribed"
ApplyingUser == hstate[Transcriber].user
ApplyingText == hstate[Transcriber].raw_text

\* the responses apply_dictionary of rows and globals allows for the text in hand
ResponsesOver(rows, globals) ==
  {Transcribed(ApplyingUser, ApplyingText, result) :
     result \in apply_dictionary(ApplyingText, ApplyingUser, rows, globals)}

OwnRows(rows, u) == {e \in rows : e.user_id = u}

\* the shared entries whose pattern, case-folded, is the case-folded pattern of
\* one of the user's personal entries
Overridden(u) ==
  {g \in shared : \E e \in OwnRows(personal, u) :
     FullCaseFold(e.pattern) = FullCaseFold(g.pattern)}

\* C26: personal entries always win: when a personal entry of the user and a
\* shared entry have patterns that are equal after case-folding, apply_dictionary
\* never applies that shared entry, so its response is one it gives without the
\* overridden shared entries and the shared replacement is not produced.
C26_PersonalEntriesAlwaysWin ==
  [][ApplyDictionary /\ Applying /\ Overridden(ApplyingUser) # {}
       => resp' \in ResponsesOver(personal, shared \ Overridden(ApplyingUser))]_vars

\* C27: apply_dictionary is total: for every text and all personal and shared
\* entries it returns a string and never raises, so every transcription ends
\* with 200 and a processed text.
C27_ApplyDictionaryNeverRaises ==
  resp.op = "transcribe" => resp.code = 200 /\ resp.detail = "ok"

\* the rows of the pool that belong to users other than u
OtherRows(u) ==
  {e \in {PersonalSz, PersonalA, PersonalTemplate, OtherUsersA} : e.user_id # u}

\* C28: user isolation: the responses of apply_dictionary(text, u) are the same
\* in every state that has u's personal entries and the shared entries of this
\* one, whatever the personal entries of the other users are.
C28_OtherUsersEntriesDoNotMatter ==
  [][ApplyDictionary /\ Applying
       => \A others \in SUBSET OtherRows(ApplyingUser) :
            ResponsesOver(personal, shared)
              = ResponsesOver(OwnRows(personal, ApplyingUser) \cup others, shared)]_vars

\* user 1, whose entry turns a into P, got P for the text a while user 2 had an
\* entry that turns a into Q
C28_Witness ==
  /\ resp.op = "transcribe"
  /\ resp.id = 1
  /\ resp.text = <<"a">>
  /\ resp.out = <<"P">>
  /\ PersonalA \in personal
  /\ OtherUsersA \in personal

\* pattern occurs in text, compared as _replace_case_insensitive compares
Occurs(pattern, t) ==
  pattern # <<>> /\ \E i \in 1..Len(t) : MatchEnd(t, i, LiteralIgnoreCase(pattern), 1) # 0

\* no pattern that apply_dictionary applies for user u occurs in t
NoApplicablePattern(t, u) ==
  /\ \A e \in OwnRows(personal, u) : ~Occurs(e.pattern, t)
  /\ \A g \in shared :
       (\A e \in OwnRows(personal, u) : Lower(e.pattern) # Lower(g.pattern))
         => ~Occurs(g.pattern, t)

\* C29: idempotence: when the text O that apply_dictionary returned holds no
\* occurrence of an applicable dictionary pattern, apply_dictionary of O with
\* the same dictionaries returns O.
C29_OutputIsFixedPoint ==
  [][ApplyDictionary /\ Applying
       /\ resp.op = "transcribe" /\ resp.code = 200
       /\ resp.id = ApplyingUser /\ ApplyingText = resp.out
       /\ NoApplicablePattern(resp.out, ApplyingUser)
       => resp'.code = 200 /\ resp'.out = resp.out]_vars

\* ======================================================= retention claims
\* C30: retention at any time: in every reachable state, the state between a
\* backup's write and its cleanup pass included, and under any interleaving of
\* scheduled and manual runs, the backup directory holds at most 3 backup files.
C30_AtMostThreeBackupsAtAnyTime ==
  Cardinality(_list_backup_files(files)) <= RETENTION

\* ============================================ transcription claims, edges
WhitespaceOnly(t) == t # <<>> /\ \A i \in 1..Len(t) : t[i] \in Whitespace

\* C31: apply_dictionary of a text that consists only of whitespace returns
\* that text unchanged.
C31_WhitespaceOnlyUnchanged ==
  [][ApplyDictionary /\ Applying /\ WhitespaceOnly(ApplyingText)
       => resp'.code = 200 /\ resp'.out = ApplyingText]_vars

\* ====================================================== backup file claims
\* C32: artifact names do not collide: two backups created on the same day at
\* distinct instants have distinct file names, so the later one does not
\* overwrite the earlier one.
C32_DistinctInstantsDistinctNames ==
  \A t1 \in createdAt, t2 \in createdAt :
    (t1 # t2 /\ DayOf(t1) = DayOf(t2)) => BackupFileName(t1) # BackupFileName(t2)

\* ===================================================== resubmission claims
\* user u's request (p, r) has been rejected and its marker is among u's
\* personal entries
Declined(u, p, r) ==
  /\ \E q \in requests : /\ q.user_id = u
                         /\ q.status = REQUEST_STATUS_REJECTED
                         /\ q.pattern = p
                         /\ q.replacement = r
  /\ \E e \in personal : /\ e.user_id = u
                         /\ e.is_rejected
                         /\ e.pattern = p
                         /\ e.replacement = r

\* C33: a declined contribution cannot be resubmitted: once a user's request
\* (P, R) is rejected and its marker exists, a submit of the same (P, R) by that
\* user is refused and creates no Pending request.
C33_DeclinedIsNotResubmitted ==
  [][\A u \in Users, p \in QuotaPatternPool, r \in QuotaReplacementPool :
       create_dictionary_request(u, p, r) /\ Declined(u, p, r)
         => resp'.code = 400 /\ requests' = requests]_vars

\* C34: the backup just written survives its own retention pass: after the
\* unlink loop of a run the file the run has written is in the directory,
\* whatever the directory held before.
C34_NewBackupSurvivesRetention ==
  [][\A p \in Scheduled \cup Manual :
       create_cleanup(p) => \E f \in files' : f.name = bproc[p].filename]_vars

C37_OneJobPerScheduledInstant ==
  [][(SchedulerLoop /\ sch.pc = "job" /\ sch'.pc = "wait")
       => sch'.next_run >= sch.next_run + TicksPerDay]_vars

\* =================================================== restore claims, counters
\* C38: the counters of a successful restore are consistent: total is the sum
\* of added, skipped and failed, and the Shared dictionary afterwards has as many
\* entries as before the restore (none in Replace mode) plus added.
C38_RestoreCountersConsistent ==
  [][\A request \in RestoreRequestPool :
       RestoreReturns(request)
         => /\ bres'.total = bres'.added + bres'.skipped + bres'.failed
            /\ Cardinality(shared') =
                 (IF request.mode = "replace" THEN 0 ELSE Cardinality(shared))
                   + bres'.added]_vars

\* a restore has added a row, skipped a row and failed on a row
C38_Witness ==
  /\ bres.op = "restore" /\ bres.outcome = "ok"
  /\ bres.added > 0 /\ bres.skipped > 0 /\ bres.failed > 0

PairsOf(entries) == {<<e.pattern, e.replacement>> : e \in entries}

\* C39: backup/restore round trip: restoring, in Replace mode, a backup file
\* that holds the present Shared dictionary leaves the set of Shared
\* (pattern, replacement) pairs as it was, with failed = 0 and skipped = 0.
C39_BackupRestoreRoundTrip ==
  [][\A request \in RoundTripRequests :
       (/\ RestoreReturns(request)
        /\ request.mode = "replace"
        /\ [i \in RowIndexes(request.filename) |->
              <<FileRows(request.filename)[i].pattern,
                FileRows(request.filename)[i].replacement>>]
             = [i \in 1..Len(RowsOf(shared)) |->
                  <<RowsOf(shared)[i].pattern, RowsOf(shared)[i].replacement>>])
         => /\ PairsOf(shared') = PairsOf(shared)
            /\ bres'.failed = 0
            /\ bres'.skipped = 0]_vars

\* ========================================================== listing claims
\* the Shared entries that an approve of the request deletes when its scan
\* stops at row `first`
ApproveDeletes(request, first) ==
  shared \ ApproveShared(shared, request, first, None, nextId)

\* C40: the conflict annotation agrees with approve: the list of pending
\* requests reports a conflict for a request exactly when an approve of that
\* request in the same state deletes a Shared entry, conflictEntryId is the id
\* of the entry the approve deletes, and the listing changes no table.
C40_ConflictAnnotationAgreesWithApprove ==
  [][ListRequests
       => /\ UNCHANGED modVars
          /\ \A q \in get_pending_requests :
               \A first \in ConflictCandidates(shared, Norm(q.pattern)) :
                 LET reported == resp'.conflict_entry_id[q.id]
                     deleted == ApproveDeletes(q, first)
                 IN  /\ reported = None <=> deleted = {}
                     /\ deleted # {} => deleted = {EntryById(shared, reported)}]_vars
====
